---- MODULE Spec2Model ----
(***************************************************************************)
(* better-morning: article lifecycle, history store and feed fetching.     *)
(*                                                                         *)
(* The state machines, each over its own group of variables:               *)
(*   SpecHistory  the history file under save / load / process kill        *)
(*   SpecFetch    RSSFetcher.fetch_articles over feeds, history and caps   *)
(*   SpecAge      RSSFetcher.fetch_articles over dates and max_age         *)
(*   SpecReport   RSSFetcher.fetch_articles and its fetch report           *)
(*   Spec         main(): runs over the collections, delivery, commit      *)
(*   SpecConfig   load_collection over collection files                    *)
(*   SpecSelect   LLMSummarizer.select_articles_for_fetching               *)
(*   SpecFilter   LLMSummarizer.filter_article                             *)
(*   SpecExtract  ContentExtractor.get_content over one batch of articles  *)
(*   SpecDigest   DocumentGenerator: the digest history                    *)
(*   SpecNaive    _is_article_too_old on naive and aware datetimes         *)
(*   SpecTruncate _truncate_text_to_token_limit                            *)
(*   SpecSummarize summarize_articles_collection with its summarize_text   *)
(*   SpecRetry    _fetch_feed_with_retry, with weak fairness of its steps  *)
(*   SpecBrowser  process_collection: the browser over every exit path     *)
(*   SpecPages    the browser pages of the get_content calls of one batch  *)
(*   SpecRate     _apply_rate_limit over concurrent calls and two domains   *)
(*   SpecLinks    _get_content_impl: the sub-links of one page              *)
(*   SpecDate     fetch_articles: the published date of an entry            *)
(*   SpecLastDigest consecutive runs of main with max_age = last-digest     *)
(* Time is counted in minutes.                                             *)
(***************************************************************************)
EXTENDS Integers, Sequences, FiniteSets, TLC

VARIABLES
    \* ---- history store (SpecHistory) ----
    hFile,       \* history/<collection>_articles.json
    hPc,         \* "idle" | "writing" (inside _save_articles_to_history)
    hPending,    \* articles json.dump has still to write
    hPrevFile,   \* the file as the running/last save found it
    hGiven,      \* selected_articles argument of the running/last save
    hLast,       \* outcome of the last finished operation
    \* ---- fetch_articles (SpecFetch, SpecAge) ----
    fHistFile,   \* history file of the collection
    fDigestFile, \* history/<collection>_digest_history.json (last_digest_time)
    fMaxAge,     \* max_age argument
    fNow,        \* datetime.now(timezone.utc) during the call
    fFeeds,      \* what each configured feed answers
    fOut,        \* result of the call
    fUrls,       \* url of each configured feed
    fReport,     \* get_fetch_report() after the call
    \* ---- main() (Spec) ----
    mFiles,      \* len(collection_files): the files are 1..mFiles
    mCfgOk,      \* per collection file: load_collection returns (else raises)
    mHistFile,   \* per collection: its article history file
    mDigestFile, \* per collection: its digest-timestamp file
    mPc,         \* "idle" | "process" | "deliver" | "commit"
    mI,          \* index into collection_files of the running loop
    mRun,        \* runs of main started so far; also the clock of main
    mArticlesBy, \* articles_by_collection, keyed by result name
    mErrors,     \* keys of collection_errors
    mDelivery,   \* what the output step of this run did
    mEnd,        \* how the last run of main ended
    mFetched,    \* per collection: what fetch_articles returned in this run
    mRaised,     \* collections whose process_collection raised in this run
    mHistAtStart,\* the history files as this run found them
    mCommitted,  \* per collection: ids that earlier commit steps saved
    \* ---- load_collection (SpecConfig) ----
    cToml,       \* the collection file
    cOut,        \* result of the call
    \* ---- select_articles_for_fetching (SpecSelect) ----
    sArticles,   \* the candidates, in the order given
    sN,          \* settings.n_most_important_news
    sAnswer,     \* what the oracle does when it is asked
    sOut,        \* result of the call
    \* ---- filter_article (SpecFilter) ----
    qQuery,      \* filter_query is non-empty
    qAnswers,    \* what the oracle does at its first and at its second call
    qPc,         \* "start" | "retry" | "done"
    qCalls,      \* litellm.acompletion calls made so far
    qOut,        \* the value returned
    \* ---- get_content over a batch (SpecExtract) ----
    xFollow,     \* settings.follow_article_links
    xArt,        \* per article of the batch: the Article object
    xPc,         \* per article: "start" | "direct" | "browser" | "links" | "done"
    xLog,        \* per article: what its get_content did so far
    xOut,        \* per article: all_articles so far; the returned list once done
    xLinks,      \* per article: sub-links still to fetch
    xLinkBudget, \* sub-links the pages of the batch may still hold
    xBatch,      \* "running" | "gathered" | "raised": the asyncio.gather of the batch
    xProcessed,  \* processed_articles after the batch
    \* ---- digest history (SpecDigest) ----
    dSize,       \* global_config.context_digest_size
    dFile,       \* history/digest_history.json
    dSaved,      \* every digest saved so far, in the order saved
    dLoaded,     \* what the last load_previous_digests returned, and after how many saves
    \* ---- _is_article_too_old on datetimes with and without tzinfo (SpecNaive) ----
    tArticleDate, \* article_date
    tCutoffDate,  \* cutoff_date, or None
    tOut,         \* what the call did
    \* ---- _truncate_text_to_token_limit (SpecTruncate) ----
    uText,        \* text, a sequence of characters
    uLimit,       \* token_limit
    uOut,         \* what the call returned
    \* ---- summarize_articles_collection (SpecSummarize) ----
    zThreshold,   \* global_config.token_size_threshold
    zContext,     \* len(previous_digests_context or "")
    zArt,         \* articles, as handed over and as summarize_text leaves them
    zPc,          \* per article: "todo" | "done" | "raised", its summarize_text task
    zSent,        \* per article: what its task sent to the oracle, "none" | "pdf" | "text"
    zOut,         \* what the call did
    \* ---- _fetch_feed_with_retry for one feed of fetch_articles (SpecRetry) ----
    rConfigured,  \* feed_config.max_retries, 0 when it is not set
    rMaxRetries,  \* max_retries of the call
    rAttempt,     \* attempt, the loop variable
    rPc,          \* "attempt" | "sleep" | "returned" | "skipped" | "entries"
    rLog,         \* the attempts and the waits so far
    rOut,         \* "pending" | "feed" | "None": what the call returned
    rStats,       \* what _record_fetch_result recorded for the feed
    \* ---- one process_collection call and its browser (SpecBrowser) ----
    bPc,          \* the statement the call stands at, "done" after it
    bBatchSize,   \* global_config.content_extraction_batch_size
    bNew,         \* len(new_articles)
    bSelected,    \* len(articles_to_fetch)
    bLeft,        \* selected articles whose batch has not run
    bContent,     \* len(articles_with_content)
    bPlaywright,  \* content_extractor._playwright: "none" | "started" | "stopped"
    bBrowser,     \* content_extractor.browser: "none" | "running" | "closed"
    bCalls,       \* calls of start_browser, launches, calls of close_browser
    bExit,        \* how the call ended, "pending" before
    \* ---- the Playwright fallback of the get_content calls of a batch (SpecPages) ----
    pPc,          \* per call: "check" | "sleeping" | "new_page" | "page" | "done"
    pActive,      \* content_extractor._active_pages
    \* ---- _apply_rate_limit of one ContentExtractor (SpecRate) ----
    lNow,         \* time.time(), in tenths of a second
    lLast,        \* self._domain_last_access, 0 for a domain without entry
    lCalls,       \* the _apply_rate_limit calls with the fetch that follows each
    \* ---- the link following of one get_content call (SpecLinks) ----
    kFollow,      \* should_follow_links
    kAnchors,     \* href of the a-tags of the page, in document order
    kFilter,      \* settings.link_filter_pattern: "none" | "even"
    kAnswers,     \* how the sub-links answer: one outcome for all, or "mixed"
    kUnique,      \* unique_links
    kI,           \* i, the index of the loop over unique_links
    kOut,         \* all_articles, and at the end what get_content returned
    kFetches,     \* _fetch_with_requests calls for sub-links
    kPc,          \* "page" | "links" | "returned" | "timed out"
    \* ---- the published date of one feed entry (SpecDate) ----
    ePublishedParsed, \* entry.get("published_parsed")
    ePublished,   \* entry.get("published")
    eNow,         \* datetime.now(timezone.utc), its reading in hours
    eOut,         \* published_date and the branch that set it
    \* ---- two runs of main with max_age = last-digest (SpecLastDigest) ----
    gNow,         \* the clock
    gFeed,        \* the entries of the feed, newest first
    gEntered,     \* per id: fetches done when it entered the feed, -1 before
    gHistFile,    \* history file of the collection
    gDigestFile,  \* digest-timestamp file of the collection
    gPc,          \* "idle" | "fetched" | "stamped"
    gRun,         \* calls of fetch_articles so far, one per run of main
    gOut,         \* what fetch_articles returned in this run
    gToday        \* today of this run (main.py step 4)

histVars  == <<hFile, hPc, hPending, hPrevFile, hGiven, hLast>>
fetchVars == <<fHistFile, fDigestFile, fMaxAge, fNow, fFeeds, fOut, fUrls, fReport>>
mainVars  == <<mFiles, mCfgOk, mHistFile, mDigestFile, mPc, mI, mRun, mArticlesBy, mErrors,
               mDelivery, mEnd, mFetched, mRaised, mHistAtStart, mCommitted>>
configVars == <<cToml, cOut>>
\* the variables of the operations that are modelled one call at a time
selectVars == <<sArticles, sN, sAnswer, sOut>>
filterVars == <<qQuery, qAnswers, qPc, qCalls, qOut>>
extractVars ==
    <<xFollow, xArt, xPc, xLog, xOut, xLinks, xLinkBudget, xBatch, xProcessed>>
digestVars == <<dSize, dFile, dSaved, dLoaded>>
naiveVars == <<tArticleDate, tCutoffDate, tOut>>
\* the groups of the remaining operations
truncateVars == <<uText, uLimit, uOut>>
summarizeVars == <<zThreshold, zContext, zArt, zPc, zSent, zOut>>
retryVars == <<rConfigured, rMaxRetries, rAttempt, rPc, rLog, rOut, rStats>>
browserVars ==
    <<bPc, bBatchSize, bNew, bSelected, bLeft, bContent, bPlaywright, bBrowser, bCalls, bExit>>
pagesVars == <<pPc, pActive>>
rateVars == <<lNow, lLast, lCalls>>
linksVars == <<kFollow, kAnchors, kFilter, kAnswers, kUnique, kI, kOut, kFetches, kPc>>
dateVars == <<ePublishedParsed, ePublished, eNow, eOut>>
lastdigestVars == <<gNow, gFeed, gEntered, gHistFile, gDigestFile, gPc, gRun, gOut, gToday>>
laterVars == <<naiveVars, truncateVars, summarizeVars, retryVars, browserVars, pagesVars,
              rateVars,
              linksVars,
              dateVars,
              lastdigestVars>>
unitVars  == <<configVars, selectVars, filterVars, extractVars, digestVars, laterVars>>
earlierVars ==
    <<histVars, fetchVars, mainVars, configVars, selectVars, filterVars, extractVars,
      digestVars>>
vars      == <<histVars, fetchVars, mainVars, unitVars>>

(***************************************************************************)
(* Bounds                                                                  *)
(***************************************************************************)
MaxId == 2          \* article ids (links) are 1..MaxId
MaxGiven == 2       \* longest selected_articles list handed to a save
MaxEntries == 2     \* entries that the feeds of one call answer, all together
NumFeeds == 2       \* feeds of the collection in SpecFetch
MaxCap == 1         \* max_articles is 0 (unset) .. MaxCap
MaxSpan == 2        \* N of a relative max_age "<N>[h|d|m]" is 0..MaxSpan
NumCollections == 2 \* most collections/*.toml files
MaxLinks == 2       \* entries of the feed of a collection in Spec
MaxCalls == 4       \* process_collection calls of all runs of main together
MaxCandidates == 4  \* candidates handed to select_articles_for_fetching
MaxN == 1           \* n_most_important_news is 0..MaxN
MaxIndices == 4     \* longest selected_indices list the oracle answers
MaxBatch == 2       \* articles of one content-extraction batch
MaxSubLinks == 1    \* links followed from the articles of one batch
MaxContext == 6     \* context_digest_size is 0..MaxContext
MaxSaves == 13      \* save_digest_to_history calls
MaxHour == 3        \* wall-clock readings of a datetime are 0..MaxHour
MaxText == 5        \* longest text handed to _truncate_text_to_token_limit
MaxTokens == 1      \* token_limit is 0..MaxTokens
MaxSummarized == 2  \* articles handed to summarize_articles_collection
MaxAnswer == 3      \* the oracle's summary of an article has 100 .. 100 * MaxAnswer characters
MaxThreshold == 1   \* token_size_threshold is 400 .. 400 * MaxThreshold
MaxRateCalls == 3   \* _apply_rate_limit calls on one extractor
MaxTicks == 3       \* steps of the clock, of min_delay each
MaxAnchors == 31    \* a-tags with href on a page
MaxFallbacks == 6   \* get_content calls of a batch that fall back to the browser
MaxRetries == 2     \* feed_config.max_retries is unset or 1..MaxRetries

Ids == 1..MaxId
Summaries == {"s1", "s2"}

\* Sequences over S of length at most n.
RECURSIVE SeqsUpTo(_, _)
SeqsUpTo(S, n) ==
    IF n = 0 THEN {<<>>}
    ELSE LET shorter == SeqsUpTo(S, n - 1)
         IN shorter \cup {Append(s, x) : s \in {t \in shorter : Len(t) = n - 1}, x \in S}

SeqIds(s) == {s[k].id : k \in 1..Len(s)}

(***************************************************************************)
(* Article (rss_fetcher.py)                                                *)
(***************************************************************************)
Article(id, published_date, feed, summary, raw_content) ==
    [id |-> id, published_date |-> published_date, feed |-> feed,
     summary |-> summary, raw_content |-> raw_content]

(***************************************************************************)
(* The history file.  A file is missing, or holds the items written so far *)
(* and is complete once json.dump has written the closing bracket.         *)
(***************************************************************************)
MissingFile == [exists |-> FALSE, items |-> <<>>, complete |-> FALSE]
FileOf(items, complete) == [exists |-> TRUE, items |-> items, complete |-> complete]

\* d[article.id] = article on an insertion-ordered dict kept as a sequence
DictPut(d, a) ==
    IF \E k \in 1..Len(d) : d[k].id = a.id
    THEN [k \in 1..Len(d) |-> IF d[k].id = a.id THEN a ELSE d[k]]
    ELSE Append(d, a)

\* {article.id: article for article in articles}
RECURSIVE DictOf(_)
DictOf(articles) ==
    IF articles = <<>> THEN <<>>
    ELSE DictPut(DictOf(SubSeq(articles, 1, Len(articles) - 1)), articles[Len(articles)])

\* _load_historical_articles: [] for a missing file, json.load otherwise,
\* which raises JSONDecodeError on an incomplete document.
LoadHistoricalArticles(file) ==
    IF ~file.exists THEN [raised |-> FALSE, articles |-> <<>>]
    ELSE IF file.complete THEN [raised |-> FALSE, articles |-> file.items]
    ELSE [raised |-> TRUE, articles |-> <<>>]

\* ArticleEncoder.default: datetime and HttpUrl are encoded, bytes are not.
Encodable(a) == ~a.raw_content

\* save_selected_articles_to_history, the merge: history first, then the
\* selected articles, each overwriting the entry of the same id.
RECURSIVE MergeSelected(_, _)
MergeSelected(all_articles, selected) ==
    IF selected = <<>> THEN all_articles
    ELSE MergeSelected(DictPut(all_articles, Head(selected)), Tail(selected))

\* json.dump(articles_to_save, f): items are streamed to the file in order;
\* the first item that cannot be encoded raises TypeError and the document
\* stays unterminated.
RECURSIVE DumpPrefix(_)
DumpPrefix(items) ==
    IF items = <<>> THEN <<>>
    ELSE IF Encodable(Head(items)) THEN <<Head(items)>> \o DumpPrefix(Tail(items))
    ELSE <<>>

JsonDump(items) ==
    LET written == DumpPrefix(items)
    IN [raised |-> Len(written) < Len(items),
        file |-> FileOf(written, Len(written) = Len(items))]

\* save_selected_articles_to_history as one call that is not interrupted.
SaveSelectedArticlesToHistory(file, selected) ==
    LET loaded == LoadHistoricalArticles(file)
    IN IF loaded.raised THEN [raised |-> TRUE, file |-> file]
       ELSE JsonDump(DictOf(MergeSelected(DictOf(loaded.articles), selected)))

NoOp == [op |-> "none", raised |-> FALSE, articles |-> <<>>]

(***************************************************************************)
(* Age cutoff (rss_fetcher.py)                                             *)
(***************************************************************************)
MinutesPerHour == 60
MinutesPerDay == 1440

\* max_age as configured: absent, the sentinel, or "<n><unit>"
NoMaxAge == [kind |-> "none", n |-> 0, unit |-> ""]
LastDigest == [kind |-> "last-digest", n |-> 0, unit |-> ""]
SpanOf(n, unit) == [kind |-> "span", n |-> n, unit |-> unit]

NoTime == [has |-> FALSE, t |-> 0]
TimeOf(t) == [has |-> TRUE, t |-> t]

\* _parse_time_span: ^(\d+)([hdm])$ or ValueError
ParseTimeSpan(span) ==
    IF span.unit = "h" THEN [raised |-> FALSE, delta |-> span.n * MinutesPerHour]
    ELSE IF span.unit = "d" THEN [raised |-> FALSE, delta |-> span.n * MinutesPerDay]
    ELSE IF span.unit = "m" THEN [raised |-> FALSE, delta |-> span.n]
    ELSE [raised |-> TRUE, delta |-> 0]

\* the per-collection digest-timestamp file
NoDigestFile == [exists |-> FALSE, readable |-> FALSE, last_digest_time |-> 0]
DigestFileOf(t) == [exists |-> TRUE, readable |-> TRUE, last_digest_time |-> t]
UnreadableDigestFile == [exists |-> TRUE, readable |-> FALSE, last_digest_time |-> 0]

\* _get_last_digest_time: None when the file is missing or does not parse
GetLastDigestTime(file) ==
    IF file.exists /\ file.readable THEN TimeOf(file.last_digest_time) ELSE NoTime

\* datetime.min, the earliest instant a datetime holds: the clock of the
\* model counts minutes from it
MinDatetime == 0

NoCutoff == [raised |-> FALSE, date |-> NoTime]
CutoffAt(t) == [raised |-> FALSE, date |-> TimeOf(t)]
CutoffOverflow == [raised |-> TRUE, date |-> NoTime]

\* _calculate_cutoff_date: the ValueError of an invalid span is caught (no
\* cutoff); the OverflowError of current_time - time_delta, raised when the
\* difference lies before datetime.min, is not
CalculateCutoffDate(max_age, digestFile, now) ==
    IF max_age.kind = "none" THEN NoCutoff
    ELSE IF max_age.kind = "last-digest"
         THEN [raised |-> FALSE, date |-> GetLastDigestTime(digestFile)]
    ELSE LET span == ParseTimeSpan(max_age)
         IN IF span.raised THEN NoCutoff
            ELSE IF now - span.delta < MinDatetime THEN CutoffOverflow
            ELSE CutoffAt(now - span.delta)

\* a mutant of _is_article_too_old: <= for <
IsArticleTooOldInclusive(article_date, cutoff_date) ==
    cutoff_date.has /\ article_date <= cutoff_date.t

\* _is_article_too_old
IsArticleTooOld(article_date, cutoff_date) ==
    cutoff_date.has /\ article_date < cutoff_date.t

(***************************************************************************)
(* fetch_articles (rss_fetcher.py)                                         *)
(***************************************************************************)
\* A feed entry: its link and its published_parsed (absent: has = FALSE).
EntryOf(link, published) == [link |-> link, published_parsed |-> published]

\* a link that is not a URL: HttpUrl(article_link) raises on it
BadLink == MaxId + 1

\* what a configured feed answers: nothing after the retries, or its entries
FailedFeed == [fetched |-> FALSE, entries |-> <<>>, max_articles |-> 0]
FeedOf(entries, max_articles) ==
    [fetched |-> TRUE, entries |-> entries, max_articles |-> max_articles]

\* published date of an entry: published_parsed, else the current time
PublishedDate(entry, now) ==
    IF entry.published_parsed.has THEN entry.published_parsed.t ELSE now

\* a mutant of the history filter of fetch_articles: every entry passes
AvailableEntriesUnfiltered(entries, historical_ids) == entries

\* entries whose link is not a key of historical_articles, in feed order
RECURSIVE AvailableEntries(_, _)
AvailableEntries(entries, historical_ids) ==
    IF entries = <<>> THEN <<>>
    ELSE IF Head(entries).link \in historical_ids
         THEN AvailableEntries(Tail(entries), historical_ids)
         ELSE <<Head(entries)>> \o AvailableEntries(Tail(entries), historical_ids)

\* available_entries[:max_articles] when max_articles is set and exceeded
ApplyMaxArticles(available, max_articles) ==
    IF max_articles > 0 /\ Len(available) > max_articles
    THEN SubSeq(available, 1, max_articles)
    ELSE available

\* the loop over available_entries: entries older than the cutoff are
\* skipped, the others appended; building the Article of a bad link raises
\* and ends the loop with what was appended so far.
RECURSIVE BuildArticles(_, _, _, _)
BuildArticles(available, cutoff_date, now, feed) ==
    IF available = <<>> THEN [raised |-> FALSE, articles |-> <<>>]
    ELSE LET entry == Head(available)
             date == PublishedDate(entry, now)
             rest == BuildArticles(Tail(available), cutoff_date, now, feed)
         IN IF IsArticleTooOld(date, cutoff_date) THEN rest
            ELSE IF entry.link = BadLink THEN [raised |-> TRUE, articles |-> <<>>]
            ELSE [raised |-> rest.raised,
                  articles |-> <<Article(entry.link, date, feed, "rss", FALSE)>> \o rest.articles]

\* a mutant of fetch_articles: the cap cuts the feed's entries before the
\* known ones are dropped
ProcessFeedCappingFirst(answer, historical_ids, cutoff_date, now, feed) ==
    IF ~answer.fetched
    THEN [articles |-> <<>>, success |-> FALSE, articles_fetched |-> 0]
    ELSE LET available == AvailableEntries(
                              ApplyMaxArticles(answer.entries, answer.max_articles),
                              historical_ids)
             built == BuildArticles(available, cutoff_date, now, feed)
         IN [articles |-> built.articles,
             success |-> ~built.raised,
             articles_fetched |-> IF built.raised THEN 0 ELSE Len(available)]

\* a mutant of the loop over available_entries: new_articles.insert(0, article)
ProcessFeedPrepending(answer, historical_ids, cutoff_date, now, feed) ==
    IF ~answer.fetched
    THEN [articles |-> <<>>, success |-> FALSE, articles_fetched |-> 0]
    ELSE LET available == ApplyMaxArticles(
                              AvailableEntries(answer.entries, historical_ids),
                              answer.max_articles)
             built == BuildArticles(available, cutoff_date, now, feed)
             n == Len(built.articles)
         IN [articles |-> [k \in 1..n |-> built.articles[n + 1 - k]],
             success |-> ~built.raised,
             articles_fetched |-> IF built.raised THEN 0 ELSE Len(available)]

\* one iteration of the loop over self.feeds, with its _record_fetch_result
ProcessFeed(answer, historical_ids, cutoff_date, now, feed) ==
    IF ~answer.fetched
    THEN [articles |-> <<>>, success |-> FALSE, articles_fetched |-> 0]
    ELSE LET available == ApplyMaxArticles(
                              AvailableEntries(answer.entries, historical_ids),
                              answer.max_articles)
             built == BuildArticles(available, cutoff_date, now, feed)
         IN [articles |-> built.articles,
             success |-> ~built.raised,
             articles_fetched |-> IF built.raised THEN 0 ELSE Len(available)]

\* fetch_articles: the history is loaded, the cutoff computed, the feeds
\* processed in configured order
RECURSIVE ProcessFeeds(_, _, _, _, _)
ProcessFeeds(answers, upto, historical_ids, cutoff_date, now) ==
    IF upto = 0 THEN [articles |-> <<>>, results |-> <<>>]
    ELSE LET before == ProcessFeeds(answers, upto - 1, historical_ids, cutoff_date, now)
             this == ProcessFeed(answers[upto], historical_ids, cutoff_date, now, upto)
         IN [articles |-> before.articles \o this.articles,
             results |-> Append(before.results,
                                [success |-> this.success,
                                 articles_fetched |-> this.articles_fetched])]

FetchArticles(histFile, digestFile, max_age, now, answers) ==
    LET loaded == LoadHistoricalArticles(histFile)
        cutoff == CalculateCutoffDate(max_age, digestFile, now)
        done == ProcessFeeds(answers, Len(answers), SeqIds(loaded.articles), cutoff.date, now)
    IN IF loaded.raised
       THEN [op |-> "fetch", raised |-> TRUE, articles |-> <<>>, results |-> <<>>,
             cutoff_date |-> NoTime]
       ELSE IF cutoff.raised
       THEN [op |-> "fetch", raised |-> TRUE, articles |-> <<>>, results |-> <<>>,
             cutoff_date |-> NoTime]
       ELSE [op |-> "fetch", raised |-> FALSE, articles |-> done.articles,
             results |-> done.results, cutoff_date |-> cutoff.date]

\* _record_fetch_result over the feeds of a call: fetch_stats is keyed by
\* str(feed_config.url), a later feed with the url of an earlier one
\* overwrites its entry
FetchStats(results, urls) ==
    [u \in {urls[k] : k \in 1..Len(results)} |->
        LET last == CHOOSE k \in 1..Len(results) :
                        urls[k] = u /\ \A m \in 1..Len(results) : urls[m] = u => m <= k
        IN results[last]]

\* get_fetch_report
GetFetchReport(fetch_stats) ==
    [successful |-> {u \in DOMAIN fetch_stats : fetch_stats[u].success},
     failed |-> {u \in DOMAIN fetch_stats : ~fetch_stats[u].success},
     total_feeds |-> Cardinality(DOMAIN fetch_stats)]

NoReport == [successful |-> {}, failed |-> {}, total_feeds |-> 0]

FetchIdle == [op |-> "none", raised |-> FALSE, articles |-> <<>>, results |-> <<>>,
              cutoff_date |-> NoTime]

\* a mutant of fetch_articles: it saves all_fetched_articles_for_history
fetch_articles_saving ==
    /\ fOut.op = "none"
    /\ fOut' = FetchArticles(fHistFile, fDigestFile, fMaxAge, fNow, fFeeds)
    /\ fReport' = GetFetchReport(FetchStats(fOut'.results, fUrls))
    /\ fHistFile' = IF fOut'.raised THEN fHistFile
                    ELSE JsonDump(DictOf(LoadHistoricalArticles(fHistFile).articles
                                         \o fOut'.articles)).file
    /\ UNCHANGED <<fDigestFile, fMaxAge, fNow, fFeeds, fUrls, histVars, mainVars, unitVars>>

\* RSSFetcher.fetch_articles(collection_name, max_age)
fetch_articles ==
    /\ fOut.op = "none"
    /\ fOut' = FetchArticles(fHistFile, fDigestFile, fMaxAge, fNow, fFeeds)
    /\ fReport' = GetFetchReport(FetchStats(fOut'.results, fUrls))
    /\ UNCHANGED <<fHistFile, fDigestFile, fMaxAge, fNow, fFeeds, fUrls, histVars, mainVars,
                   unitVars>>

NextFetch == fetch_articles

\* the ascending sequence of a set of ids
RECURSIVE AscendingSeq(_)
AscendingSeq(S) ==
    IF S = {} THEN <<>>
    ELSE LET m == CHOOSE x \in S : \A y \in S : x <= y
         IN <<m>> \o AscendingSeq(S \ {m})

StoredArticle(i) == Article(i, 0, 0, "s1", FALSE)
StoredHistory(S) ==
    LET ids == AscendingSeq(S) IN [k \in 1..Len(ids) |-> StoredArticle(ids[k])]

\* a history file as earlier runs can have left it
HistoryFiles(S) ==
    {MissingFile, FileOf(<<>>, FALSE)} \cup {FileOf(StoredHistory(T), TRUE) : T \in SUBSET S}

ParkedHistory ==
    /\ hFile = MissingFile
    /\ hPc = "parked"
    /\ hPending = <<>>
    /\ hPrevFile = MissingFile
    /\ hGiven = <<>>
    /\ hLast = NoOp

ParkedFetch ==
    /\ fHistFile = MissingFile
    /\ fDigestFile = NoDigestFile
    /\ fMaxAge = NoMaxAge
    /\ fNow = 0
    /\ fFeeds = <<>>
    /\ fOut = [op |-> "parked", raised |-> FALSE, articles |-> <<>>, results |-> <<>>,
               cutoff_date |-> NoTime]
    /\ fUrls = <<>>
    /\ fReport = NoReport

ParkedConfig ==
    /\ cToml = <<>>
    /\ cOut = [op |-> "parked"]

ParkedSelect ==
    /\ sArticles = <<>>
    /\ sN = 0
    /\ sAnswer = [kind |-> "parked", indices |-> <<>>]
    /\ sOut = [op |-> "parked"]

ParkedFilter ==
    /\ qQuery = FALSE
    /\ qAnswers = <<>>
    /\ qPc = "parked"
    /\ qCalls = 0
    /\ qOut = FALSE

ParkedExtract ==
    /\ xFollow = FALSE
    /\ xArt = <<>>
    /\ xPc = <<>>
    /\ xLog = <<>>
    /\ xOut = <<>>
    /\ xLinks = <<>>
    /\ xLinkBudget = 0
    /\ xBatch = "parked"
    /\ xProcessed = <<>>

ParkedDigest ==
    /\ dSize = 0
    /\ dFile = [exists |-> FALSE, digests |-> <<>>]
    /\ dSaved = <<>>
    /\ dLoaded = [op |-> "parked", digests |-> <<>>, at |-> 0]

ParkedNaive ==
    /\ tArticleDate = 0
    /\ tCutoffDate = 0
    /\ tOut = [op |-> "parked"]

ParkedTruncate ==
    /\ uText = <<>>
    /\ uLimit = 0
    /\ uOut = [op |-> "parked"]

ParkedSummarize ==
    /\ zThreshold = 0
    /\ zContext = 0
    /\ zArt = <<>>
    /\ zPc = <<>>
    /\ zSent = <<>>
    /\ zOut = [op |-> "parked"]

ParkedRetry ==
    /\ rConfigured = 0
    /\ rMaxRetries = 0
    /\ rAttempt = 0
    /\ rPc = "parked"
    /\ rLog = <<>>
    /\ rOut = "pending"
    /\ rStats = "none"

NoCalls == [start_browser |-> 0, launch |-> 0, close_browser |-> 0]

ParkedBrowser ==
    /\ bPc = "parked"
    /\ bBatchSize = 0
    /\ bNew = 0
    /\ bSelected = 0
    /\ bLeft = 0
    /\ bContent = 0
    /\ bPlaywright = "none"
    /\ bBrowser = "none"
    /\ bCalls = NoCalls
    /\ bExit = "pending"

ParkedPages ==
    /\ pPc = <<>>
    /\ pActive = 0

ParkedRate ==
    /\ lNow = 0
    /\ lLast = <<>>
    /\ lCalls = <<>>

ParkedLinks ==
    /\ kFollow = FALSE
    /\ kAnchors = <<>>
    /\ kFilter = "none"
    /\ kAnswers = "text"
    /\ kUnique = <<>>
    /\ kI = 0
    /\ kOut = <<>>
    /\ kFetches = 0
    /\ kPc = "parked"

ParkedDate ==
    /\ ePublishedParsed = [kind |-> "absent"]
    /\ ePublished = [kind |-> "absent"]
    /\ eNow = 0
    /\ eOut = [op |-> "parked"]

ParkedLastDigest ==
    /\ gNow = 0
    /\ gFeed = <<>>
    /\ gEntered = <<>>
    /\ gHistFile = MissingFile
    /\ gDigestFile = NoDigestFile
    /\ gPc = "parked"
    /\ gRun = 0
    /\ gOut = <<>>
    /\ gToday = 0

ParkedLater ==
    /\ ParkedNaive /\ ParkedTruncate /\ ParkedSummarize /\ ParkedRetry /\ ParkedBrowser
    /\ ParkedPages
    /\ ParkedRate
    /\ ParkedLinks
    /\ ParkedDate
    /\ ParkedLastDigest

\* every group of laterVars but the named one is parked, and stays as it is
ParkedLaterBut(group) ==
    /\ IF group = "naive" THEN TRUE ELSE ParkedNaive
    /\ IF group = "truncate" THEN TRUE ELSE ParkedTruncate
    /\ IF group = "summarize" THEN TRUE ELSE ParkedSummarize
    /\ IF group = "retry" THEN TRUE ELSE ParkedRetry
    /\ IF group = "browser" THEN TRUE ELSE ParkedBrowser
    /\ IF group = "pages" THEN TRUE ELSE ParkedPages
    /\ IF group = "rate" THEN TRUE ELSE ParkedRate
    /\ IF group = "links" THEN TRUE ELSE ParkedLinks
    /\ IF group = "date" THEN TRUE ELSE ParkedDate
    /\ IF group = "lastdigest" THEN TRUE ELSE ParkedLastDigest

UnchangedLaterBut(group) ==
    /\ IF group = "naive" THEN TRUE ELSE UNCHANGED naiveVars
    /\ IF group = "truncate" THEN TRUE ELSE UNCHANGED truncateVars
    /\ IF group = "summarize" THEN TRUE ELSE UNCHANGED summarizeVars
    /\ IF group = "retry" THEN TRUE ELSE UNCHANGED retryVars
    /\ IF group = "browser" THEN TRUE ELSE UNCHANGED browserVars
    /\ IF group = "pages" THEN TRUE ELSE UNCHANGED pagesVars
    /\ IF group = "rate" THEN TRUE ELSE UNCHANGED rateVars
    /\ IF group = "links" THEN TRUE ELSE UNCHANGED linksVars
    /\ IF group = "date" THEN TRUE ELSE UNCHANGED dateVars
    /\ IF group = "lastdigest" THEN TRUE ELSE UNCHANGED lastdigestVars

ParkedUnits ==
    /\ ParkedConfig /\ ParkedSelect /\ ParkedFilter /\ ParkedExtract /\ ParkedDigest
    /\ ParkedLater

ParkedMain ==
    /\ mFiles = 0
    /\ mCfgOk = <<>>
    /\ mHistFile = <<>>
    /\ mDigestFile = <<>>
    /\ mPc = "parked"
    /\ mI = 0
    /\ mRun = 0
    /\ mArticlesBy = <<>>
    /\ mErrors = {}
    /\ mDelivery = "none"
    /\ mEnd = "none"
    /\ mFetched = <<>>
    /\ mRaised = {}
    /\ mHistAtStart = <<>>
    /\ mCommitted = <<>>

\* SpecFetch: several feeds, history, caps and bad entries; no age filter.
\* MaxEntries bounds the entries of all the feeds of one call together.
UndatedEntries == {EntryOf(l, NoTime) : l \in Ids \cup {BadLink}}
FeedAnswers(budget) ==
    {FailedFeed} \cup
        {FeedOf(e, c) : e \in SeqsUpTo(UndatedEntries, budget), c \in 0..MaxCap}

RECURSIVE FeedLists(_, _)
FeedLists(k, budget) ==
    IF k = 0 THEN {<<>>}
    ELSE UNION {{<<a>> \o rest : rest \in FeedLists(k - 1, budget - Len(a.entries))} :
                    a \in FeedAnswers(budget)}

\* feed urls, all different
DistinctUrls(n) == [k \in 1..n |-> k]

InitFetch ==
    /\ fHistFile \in HistoryFiles({1})
    /\ fDigestFile = NoDigestFile
    /\ fMaxAge = NoMaxAge
    /\ fNow = 7 * MinutesPerDay
    /\ fFeeds \in FeedLists(NumFeeds, MaxEntries)
    /\ fOut = FetchIdle
    /\ fUrls = DistinctUrls(Len(fFeeds))
    /\ fReport = NoReport
    /\ ParkedHistory
    /\ ParkedMain
    /\ ParkedUnits

SpecFetch == InitFetch /\ [][NextFetch]_vars

\* SpecAge: one feed without cap, dated entries, every max_age
AgeOffsets == {1, MinutesPerHour, MinutesPerDay, 2 * MinutesPerDay, 5 * MinutesPerDay}
DatedEntries(now) ==
    {EntryOf(l, d) : l \in Ids, d \in {NoTime} \cup {TimeOf(now - o) : o \in AgeOffsets}}
\* the last one is a span longer than the time since datetime.min
MaxAges ==
    {NoMaxAge, LastDigest, SpanOf(2, "weeks")}
        \cup {SpanOf(n, u) : n \in 0..MaxSpan, u \in {"h", "d", "m"}}
        \cup {SpanOf(4 * MaxSpan, "d")}
DigestFiles(now) == {NoDigestFile, UnreadableDigestFile, DigestFileOf(now - 2 * MinutesPerDay)}

InitAge ==
    /\ fNow = 7 * MinutesPerDay
    /\ fHistFile \in {MissingFile, FileOf(StoredHistory({1}), TRUE)}
    /\ fDigestFile \in DigestFiles(fNow)
    /\ fMaxAge \in MaxAges
    /\ fFeeds \in {<<FeedOf(e, 0)>> : e \in SeqsUpTo(DatedEntries(fNow), MaxEntries)}
    /\ fOut = FetchIdle
    /\ fUrls = DistinctUrls(Len(fFeeds))
    /\ fReport = NoReport
    /\ ParkedHistory
    /\ ParkedMain
    /\ ParkedUnits

SpecAge == InitAge /\ [][NextFetch]_vars

\* SpecCap: one feed with a cap, a history and entries on both sides of a
\* one-day cutoff; the feed holds up to MaxEntries + 1 entries
CapDates(now) == {TimeOf(now - MinutesPerHour), TimeOf(now - 2 * MinutesPerDay)}
CapEntries(now) == {EntryOf(l, d) : l \in Ids, d \in CapDates(now)}

InitCap ==
    /\ fNow = 7 * MinutesPerDay
    /\ fHistFile \in {MissingFile, FileOf(StoredHistory({1}), TRUE)}
    /\ fDigestFile = NoDigestFile
    /\ fMaxAge \in {NoMaxAge, SpanOf(1, "d")}
    /\ fFeeds \in {<<FeedOf(e, c)>> : e \in SeqsUpTo(CapEntries(fNow), MaxEntries + 1),
                                      c \in 0..MaxCap}
    /\ fOut = FetchIdle
    /\ fUrls = DistinctUrls(Len(fFeeds))
    /\ fReport = NoReport
    /\ ParkedHistory
    /\ ParkedMain
    /\ ParkedUnits

SpecCap == InitCap /\ [][NextFetch]_vars

\* SpecReport: feeds that fail, raise or share a url; at most one entry
\* over all the feeds of a call, no history, no age filter
InitReport ==
    /\ fHistFile = MissingFile
    /\ fDigestFile = NoDigestFile
    /\ fMaxAge = NoMaxAge
    /\ fNow = 7 * MinutesPerDay
    /\ fFeeds \in FeedLists(NumFeeds, 1)
    /\ fOut = FetchIdle
    /\ fUrls \in [1..NumFeeds -> 1..NumFeeds]
    /\ fReport = NoReport
    /\ ParkedHistory
    /\ ParkedMain
    /\ ParkedUnits

SpecReport == InitReport /\ [][NextFetch]_vars

(***************************************************************************)
(* Spec: main() run after run (main.py)                                    *)
(***************************************************************************)
Collections == 1..NumCollections

\* collection_config.name, the key of a result and of the history files
Name(c) == <<"name", c>>
\* os.path.basename(filepath).replace(".toml", ""), the key of a placeholder;
\* it equals the configured name for the odd collections only
BaseName(c) == IF c % 2 = 1 THEN Name(c) ELSE <<"file", c>>
Keys == {Name(c) : c \in Collections} \cup {BaseName(c) : c \in Collections}

Absent == [present |-> FALSE, articles |-> <<>>]
ResultOf(articles) == [present |-> TRUE, articles |-> articles]

\* the feed of a collection: one feed, entries 1..MaxLinks, no cap; it is
\* the same in every run
CollectionFeeds == <<FeedOf([k \in 1..MaxLinks |-> EntryOf(k, NoTime)], 0)>>

\* what selection, extraction and summarization can leave of the fetched
\* articles: any of them, in order, each summarized and with or without
\* PDF bytes in raw_content
RECURSIVE SummarizedLists(_)
SummarizedLists(fetched) ==
    IF fetched = <<>> THEN {<<>>}
    ELSE LET rest == SummarizedLists(Tail(fetched))
             a == Head(fetched)
         IN rest \cup
            {<<Article(a.id, a.published_date, a.feed, "llm", raw)>> \o r :
                 raw \in BOOLEAN, r \in rest}

\* a mutant of the except branch of main: the placeholder keeps the articles
PlaceholderKeepsFetched(fetched) ==
    ResultOf([k \in 1..Len(fetched) |->
                 Article(fetched[k].id, fetched[k].published_date, fetched[k].feed, "llm", FALSE)])

\* the result main records for a collection whose processing raised
PlaceholderResult(fetched) == ResultOf(<<>>)

InitMain ==
    /\ mFiles \in Collections
    /\ mCfgOk \in {f \in [Collections -> BOOLEAN] : \A c \in Collections : c > mFiles => f[c]}
    /\ mHistFile = [c \in Collections |-> MissingFile]
    /\ mDigestFile = [c \in Collections |-> NoDigestFile]
    /\ mPc = "idle"
    /\ mI = 0
    /\ mRun = 0
    /\ mArticlesBy = [k \in Keys |-> Absent]
    /\ mErrors = {}
    /\ mDelivery = "none"
    /\ mEnd = "none"
    /\ mFetched = [c \in Collections |-> <<>>]
    /\ mRaised = {}
    /\ mHistAtStart = [c \in Collections |-> MissingFile]
    /\ mCommitted = [c \in Collections |-> {}]
    /\ ParkedHistory
    /\ ParkedFetch
    /\ ParkedUnits

\* main up to the loop over collection_files
StartRun ==
    /\ mPc = "idle"
    /\ (mRun + 1) * mFiles <= MaxCalls
    /\ mRun' = mRun + 1
    /\ mPc' = "process"
    /\ mI' = 1
    /\ mArticlesBy' = [k \in Keys |-> Absent]
    /\ mErrors' = {}
    /\ mDelivery' = "none"
    /\ mEnd' = "none"
    /\ mFetched' = [c \in Collections |-> <<>>]
    /\ mRaised' = {}
    /\ mHistAtStart' = mHistFile
    /\ UNCHANGED <<mFiles, mCfgOk, mHistFile, mDigestFile, mCommitted, histVars, fetchVars, unitVars>>

\* after one iteration of the loop over collection_files
NextCollection ==
    IF mI < mFiles
    THEN mI' = mI + 1 /\ mPc' = "process"
    ELSE mI' = 1 /\ mPc' = "deliver"

\* one iteration of the loop: process_collection returned `articles`
CollectionReturns(fetched, articles) ==
    /\ mArticlesBy' = [mArticlesBy EXCEPT ![Name(mI)] = ResultOf(articles)]
    /\ mFetched' = [mFetched EXCEPT ![mI] = fetched]
    /\ UNCHANGED <<mErrors, mRaised>>

\* one iteration of the loop: process_collection raised
CollectionRaises(fetched) ==
    /\ mArticlesBy' = [mArticlesBy EXCEPT ![BaseName(mI)] = PlaceholderResult(fetched)]
    /\ mErrors' = mErrors \cup {BaseName(mI)}
    /\ mRaised' = mRaised \cup {mI}
    /\ mFetched' = [mFetched EXCEPT ![mI] = fetched]

\* try: result = await process_collection(filepath) / except Exception
ProcessCollection ==
    /\ mPc = "process"
    /\ LET fetch == FetchArticles(mHistFile[mI], mDigestFile[mI], NoMaxAge, mRun,
                                  CollectionFeeds)
       IN \/ /\ ~mCfgOk[mI]
             /\ CollectionRaises(<<>>)
          \/ /\ mCfgOk[mI]
             /\ fetch.raised
             /\ CollectionRaises(<<>>)
          \/ /\ mCfgOk[mI]
             /\ ~fetch.raised
             /\ \/ CollectionRaises(fetch.articles)
                \/ \E articles \in SummarizedLists(fetch.articles) :
                       CollectionReturns(fetch.articles, articles)
    /\ NextCollection
    /\ UNCHANGED <<mFiles, mCfgOk, mHistFile, mDigestFile, mRun, mDelivery, mEnd, mHistAtStart,
                   mCommitted, histVars, fetchVars, unitVars>>

\* main ends by an exception
Abort ==
    /\ mPc' = "idle"
    /\ mI' = 0
    /\ mEnd' = "aborted"

\* steps 4 to 6: the digest is generated, output and saved as context
Deliver ==
    /\ mPc = "deliver"
    /\ \E credentials \in BOOLEAN, ok \in BOOLEAN :
         IF credentials
         THEN \* send_via_email / create_github_release catch every error
              /\ mDelivery' = IF ok THEN "sent" ELSE "failed"
              /\ mPc' = "commit"
              /\ mI' = 1
              /\ UNCHANGED mEnd
         ELSE \* the digest is written to a local file; open() may raise
              IF ok
              THEN /\ mDelivery' = "local-file"
                   /\ mPc' = "commit"
                   /\ mI' = 1
                   /\ UNCHANGED mEnd
              ELSE /\ mDelivery' = "raised"
                   /\ Abort
    /\ UNCHANGED <<mFiles, mCfgOk, mHistFile, mDigestFile, mRun, mArticlesBy, mErrors, mFetched,
                   mRaised, mHistAtStart, mCommitted, histVars, fetchVars, unitVars>>

\* a mutant of step 7: save_digest_time stands outside the if
CommitStampingAll ==
    /\ mPc = "commit"
    /\ IF ~mCfgOk[mI]
       THEN /\ Abort
            /\ UNCHANGED <<mHistFile, mDigestFile, mCommitted>>
       ELSE LET result == mArticlesBy[Name(mI)]
                saved == SaveSelectedArticlesToHistory(mHistFile[mI], result.articles)
            IN IF result.present /\ result.articles # <<>>
               THEN /\ mHistFile' = [mHistFile EXCEPT ![mI] = saved.file]
                    /\ IF saved.raised
                       THEN /\ Abort
                            /\ UNCHANGED <<mDigestFile, mCommitted>>
                       ELSE /\ mDigestFile' = [mDigestFile EXCEPT ![mI] = DigestFileOf(mRun)]
                            /\ mCommitted' = [mCommitted EXCEPT
                                                 ![mI] = @ \cup SeqIds(result.articles)]
                            /\ IF mI < mFiles
                               THEN mI' = mI + 1 /\ UNCHANGED <<mPc, mEnd>>
                               ELSE mI' = 0 /\ mPc' = "idle" /\ mEnd' = "finished"
               ELSE /\ mDigestFile' = [mDigestFile EXCEPT ![mI] = DigestFileOf(mRun)]
                    /\ UNCHANGED <<mHistFile, mCommitted>>
                    /\ IF mI < mFiles
                       THEN mI' = mI + 1 /\ UNCHANGED <<mPc, mEnd>>
                       ELSE mI' = 0 /\ mPc' = "idle" /\ mEnd' = "finished"
    /\ UNCHANGED <<mFiles, mCfgOk, mRun, mArticlesBy, mErrors, mDelivery, mFetched, mRaised,
                   mHistAtStart, histVars, fetchVars, unitVars>>

\* a mutant of step 7: every fetched article of the collection is saved
CommitFetched ==
    /\ mPc = "commit"
    /\ IF ~mCfgOk[mI]
       THEN \* load_collection raises
            /\ Abort
            /\ UNCHANGED <<mHistFile, mDigestFile, mCommitted>>
       ELSE LET result == mArticlesBy[Name(mI)]
                saved == SaveSelectedArticlesToHistory(mHistFile[mI], mFetched[mI])
            IN IF result.present /\ result.articles # <<>>
               THEN /\ mHistFile' = [mHistFile EXCEPT ![mI] = saved.file]
                    /\ IF saved.raised
                       THEN /\ Abort
                            /\ UNCHANGED <<mDigestFile, mCommitted>>
                       ELSE /\ mDigestFile' = [mDigestFile EXCEPT ![mI] = DigestFileOf(mRun)]
                            /\ mCommitted' = [mCommitted EXCEPT
                                                 ![mI] = @ \cup SeqIds(result.articles)]
                            /\ IF mI < mFiles
                               THEN mI' = mI + 1 /\ UNCHANGED <<mPc, mEnd>>
                               ELSE mI' = 0 /\ mPc' = "idle" /\ mEnd' = "finished"
               ELSE /\ UNCHANGED <<mHistFile, mDigestFile, mCommitted>>
                    /\ IF mI < mFiles
                       THEN mI' = mI + 1 /\ UNCHANGED <<mPc, mEnd>>
                       ELSE mI' = 0 /\ mPc' = "idle" /\ mEnd' = "finished"
    /\ UNCHANGED <<mFiles, mCfgOk, mRun, mArticlesBy, mErrors, mDelivery, mFetched, mRaised,
                   mHistAtStart, histVars, fetchVars, unitVars>>

\* step 7, one iteration of the loop over collection_files
Commit ==
    /\ mPc = "commit"
    /\ IF ~mCfgOk[mI]
       THEN \* load_collection raises
            /\ Abort
            /\ UNCHANGED <<mHistFile, mDigestFile, mCommitted>>
       ELSE LET result == mArticlesBy[Name(mI)]
                saved == SaveSelectedArticlesToHistory(mHistFile[mI], result.articles)
            IN IF result.present /\ result.articles # <<>>
               THEN /\ mHistFile' = [mHistFile EXCEPT ![mI] = saved.file]
                    /\ IF saved.raised
                       THEN /\ Abort
                            /\ UNCHANGED <<mDigestFile, mCommitted>>
                       ELSE /\ mDigestFile' = [mDigestFile EXCEPT ![mI] = DigestFileOf(mRun)]
                            /\ mCommitted' = [mCommitted EXCEPT
                                                 ![mI] = @ \cup SeqIds(result.articles)]
                            /\ IF mI < mFiles
                               THEN mI' = mI + 1 /\ UNCHANGED <<mPc, mEnd>>
                               ELSE mI' = 0 /\ mPc' = "idle" /\ mEnd' = "finished"
               ELSE /\ UNCHANGED <<mHistFile, mDigestFile, mCommitted>>
                    /\ IF mI < mFiles
                       THEN mI' = mI + 1 /\ UNCHANGED <<mPc, mEnd>>
                       ELSE mI' = 0 /\ mPc' = "idle" /\ mEnd' = "finished"
    /\ UNCHANGED <<mFiles, mCfgOk, mRun, mArticlesBy, mErrors, mDelivery, mFetched, mRaised,
                   mHistAtStart, histVars, fetchVars, unitVars>>

Next == StartRun \/ ProcessCollection \/ Deliver \/ Commit

Spec == InitMain /\ [][Next]_vars

(***************************************************************************)
(* SpecHistory: the history file of one collection                         *)
(***************************************************************************)
HistArticles == {Article(i, 0, 0, s, r) : i \in Ids, s \in Summaries, r \in BOOLEAN}

InitHistory ==
    /\ hFile = MissingFile
    /\ hPc = "idle"
    /\ hPending = <<>>
    /\ hPrevFile = MissingFile
    /\ hGiven = <<>>
    /\ hLast = NoOp
    /\ ParkedFetch
    /\ ParkedMain
    /\ ParkedUnits

\* save_selected_articles_to_history up to and including open(history_file, "w")
SaveOpen ==
    /\ hPc = "idle"
    /\ \E selected \in SeqsUpTo(HistArticles, MaxGiven) :
         LET loaded == LoadHistoricalArticles(hFile)
         IN /\ hGiven' = selected
            /\ hPrevFile' = hFile
            /\ IF loaded.raised
               THEN /\ hLast' = [op |-> "save", raised |-> TRUE, articles |-> <<>>]
                    /\ UNCHANGED <<hFile, hPc, hPending>>
               ELSE /\ hPending' = DictOf(MergeSelected(DictOf(loaded.articles), selected))
                    /\ hFile' = FileOf(<<>>, FALSE)
                    /\ hPc' = "writing"
                    /\ hLast' = [op |-> "saving", raised |-> FALSE, articles |-> <<>>]
    /\ UNCHANGED <<fetchVars, mainVars, unitVars>>

\* json.dump writes the next item, or raises TypeError on it
SaveWrite ==
    /\ hPc = "writing"
    /\ hPending # <<>>
    /\ IF Encodable(Head(hPending))
       THEN /\ hFile' = FileOf(Append(hFile.items, Head(hPending)), FALSE)
            /\ hPending' = Tail(hPending)
            /\ UNCHANGED <<hPc, hLast>>
       ELSE /\ hPc' = "idle"
            /\ hPending' = <<>>
            /\ hLast' = [op |-> "save", raised |-> TRUE, articles |-> <<>>]
            /\ UNCHANGED hFile
    /\ UNCHANGED <<hPrevFile, hGiven, fetchVars, mainVars, unitVars>>

\* json.dump writes the end of the document and the file is closed
SaveClose ==
    /\ hPc = "writing"
    /\ hPending = <<>>
    /\ hFile' = FileOf(hFile.items, TRUE)
    /\ hPc' = "idle"
    /\ hLast' = [op |-> "save", raised |-> FALSE, articles |-> <<>>]
    /\ UNCHANGED <<hPending, hPrevFile, hGiven, fetchVars, mainVars, unitVars>>

\* the process is killed while the history file is open for writing
Crash ==
    /\ hPc = "writing"
    /\ hPc' = "idle"
    /\ hPending' = <<>>
    /\ hLast' = [op |-> "crash", raised |-> FALSE, articles |-> <<>>]
    /\ UNCHANGED <<hFile, hPrevFile, hGiven, fetchVars, mainVars, unitVars>>

\* _load_historical_articles
Load ==
    /\ hPc = "idle"
    /\ LET loaded == LoadHistoricalArticles(hFile)
       IN hLast' = [op |-> "load", raised |-> loaded.raised, articles |-> loaded.articles]
    /\ UNCHANGED <<hFile, hPc, hPending, hPrevFile, hGiven, fetchVars, mainVars, unitVars>>

NextHistory == SaveOpen \/ SaveWrite \/ SaveClose \/ Crash \/ Load

SpecHistory == InitHistory /\ [][NextHistory]_vars

(***************************************************************************)
(* SpecConfig: load_collection (config.py)                                 *)
(***************************************************************************)
\* the "feeds" key of a collection file: missing, or one table per feed,
\* each with a url that is a URL or not
NoFeedsKey == [has |-> FALSE, urls |-> <<>>]
FeedsKey(urls) == [has |-> TRUE, urls |-> urls]

\* a collection file: whether it is TOML at all, its "name" key, its
\* "feeds" key, its "max_age" key and the top-level "follow_article_links"
\* ("absent", "true" or "false")
CollectionFiles ==
    [parses : BOOLEAN, has_name : BOOLEAN,
     feeds : {NoFeedsKey} \cup {FeedsKey(u) : u \in SeqsUpTo(BOOLEAN, NumFeeds)},
     max_age : MaxAges,
     follow_article_links : {"absent", "true", "false"}]

LoadRaised(error) == [op |-> "load", raised |-> TRUE, error |-> error,
                      feeds |-> 0, follow_article_links |-> FALSE]

\* load_collection: the keys the Collection model does not declare, max_age
\* among them, are not read; the exceptions are re-raised as they are
LoadCollection(toml) ==
    IF ~toml.parses THEN LoadRaised("ValueError")         \* toml.TomlDecodeError
    ELSE IF ~toml.has_name THEN LoadRaised("KeyError")
    ELSE IF ~toml.feeds.has THEN LoadRaised("KeyError")
    ELSE IF \E k \in 1..Len(toml.feeds.urls) : ~toml.feeds.urls[k]
         THEN LoadRaised("ValueError")                    \* pydantic ValidationError
    ELSE [op |-> "load", raised |-> FALSE, error |-> "",
          feeds |-> Len(toml.feeds.urls),
          follow_article_links |-> toml.follow_article_links = "true"]

InitConfig ==
    /\ cToml \in CollectionFiles
    /\ cOut = [op |-> "none"]
    /\ ParkedHistory
    /\ ParkedFetch
    /\ ParkedMain
    /\ ParkedSelect
    /\ ParkedFilter
    /\ ParkedExtract
    /\ ParkedDigest
    /\ ParkedLater

\* load_collection(collection_path, global_config)
load_collection ==
    /\ cOut.op = "none"
    /\ cOut' = LoadCollection(cToml)
    /\ UNCHANGED <<cToml, histVars, fetchVars, mainVars, selectVars, filterVars,
                   extractVars, digestVars, laterVars>>

SpecConfig == InitConfig /\ [][load_collection]_vars

\* the file is valid TOML with a name and feeds that have URLs
WellFormed(toml) ==
    /\ toml.parses /\ toml.has_name /\ toml.feeds.has
    /\ \A k \in 1..Len(toml.feeds.urls) : toml.feeds.urls[k]

\* C11: loading a collection file whose max_age is neither "<N>[h|d|m]" nor
\* "last-digest" raises ValueError (stated for the files that are valid in
\* everything else).
C11_InvalidMaxAgeRejected ==
    (cOut.op = "load" /\ WellFormed(cToml) /\ cToml.max_age.kind = "span"
        /\ cToml.max_age.unit \notin {"h", "d", "m"}) =>
        (cOut.raised /\ cOut.error = "ValueError")

(***************************************************************************)
(* SpecSelect: select_articles_for_fetching (llm_summarizer.py)            *)
(***************************************************************************)
\* num_to_select = min(len(articles), 3 * n_most_important_news)
SelectionMultiplier == 3

Min(a, b) == IF a <= b THEN a ELSE b

NumToSelect(articles, n) == Min(Len(articles), SelectionMultiplier * n)

\* what the oracle can do: the call raises; the content is no JSON; it is
\* JSON but no object; the object has no "selected_indices"; the value is no
\* list; the list holds something that is no int; or it is a list of ints
OracleFailures == {"raises", "not-json", "not-object", "not-list", "not-ints"}
OracleAnswer(kind, indices) == [kind |-> kind, indices |-> indices]
NotAsked == OracleAnswer("not-asked", <<>>)

\* [articles[i - 1] for i in selected_indices if 0 < i <= len(articles)]
RECURSIVE PickIndices(_, _)
PickIndices(articles, selected_indices) ==
    IF selected_indices = <<>> THEN <<>>
    ELSE LET i == Head(selected_indices)
             rest == PickIndices(articles, Tail(selected_indices))
         IN IF 0 < i /\ i <= Len(articles) THEN <<articles[i]>> \o rest ELSE rest

\* sorted(articles, key=published_date, reverse=True): newest first, equal
\* dates in the order given
RECURSIVE InsertNewestFirst(_, _)
InsertNewestFirst(a, sorted) ==
    IF sorted = <<>> THEN <<a>>
    ELSE IF Head(sorted).published_date <= a.published_date THEN <<a>> \o sorted
    ELSE <<Head(sorted)>> \o InsertNewestFirst(a, Tail(sorted))

RECURSIVE SortNewestFirst(_)
SortNewestFirst(articles) ==
    IF articles = <<>> THEN <<>>
    ELSE InsertNewestFirst(Head(articles), SortNewestFirst(Tail(articles)))

SelectResult(articles, calls) ==
    [op |-> "select", raised |-> FALSE, articles |-> articles, oracle_calls |-> calls]

SelectArticlesForFetching(articles, n, answer) ==
    LET num_to_select == NumToSelect(articles, n)
    IN IF articles = <<>> THEN SelectResult(<<>>, 0)
       ELSE IF num_to_select = 0 THEN SelectResult(<<>>, 0)
       ELSE IF num_to_select >= Len(articles) THEN SelectResult(articles, 0)
       ELSE IF answer.kind \in OracleFailures
            THEN SelectResult(SubSeq(SortNewestFirst(articles), 1, num_to_select), 1)
       ELSE IF answer.kind = "no-key" THEN SelectResult(<<>>, 1)
       ELSE SelectResult(PickIndices(articles, answer.indices), 1)

\* candidates 1..k as fetch_articles builds them, with their dates
SelectDates == {1, 2}
Candidates ==
    UNION {{[k \in 1..len |-> Article(k, dates[k], 1, "rss", FALSE)] :
                dates \in [1..len -> SelectDates]} : len \in 0..MaxCandidates}

OracleAnswers(len) ==
    {OracleAnswer(kind, <<>>) : kind \in OracleFailures \cup {"no-key"}}
        \cup {OracleAnswer("indices", i) : i \in SeqsUpTo(0..(len + 1), MaxIndices)}

InitSelect ==
    /\ sArticles \in Candidates
    /\ sN \in 0..MaxN
    /\ sAnswer \in IF NumToSelect(sArticles, sN) \in 1..(Len(sArticles) - 1)
                   THEN OracleAnswers(Len(sArticles)) ELSE {NotAsked}
    /\ sOut = [op |-> "none"]
    /\ ParkedHistory
    /\ ParkedFetch
    /\ ParkedMain
    /\ ParkedConfig
    /\ ParkedFilter
    /\ ParkedExtract
    /\ ParkedDigest
    /\ ParkedLater

\* await llm_summarizer.select_articles_for_fetching(articles, ...)
select_articles_for_fetching ==
    /\ sOut.op = "none"
    /\ sOut' = SelectArticlesForFetching(sArticles, sN, sAnswer)
    /\ UNCHANGED <<sArticles, sN, sAnswer, histVars, fetchVars, mainVars, configVars,
                   filterVars, extractVars, digestVars, laterVars>>

SpecSelect == InitSelect /\ [][select_articles_for_fetching]_vars

\* C13: the selection returns at most min(len(candidates), 3 * n) articles;
\* when that bound is at least len(candidates) the oracle is not called and
\* every candidate is returned.
C13_SelectionBound ==
    sOut.op = "select" =>
        /\ ~sOut.raised
        /\ Len(sOut.articles) <= NumToSelect(sArticles, sN)
        /\ NumToSelect(sArticles, sN) >= Len(sArticles) =>
               (sOut.oracle_calls = 0 /\ sOut.articles = sArticles)

\* the answer of the oracle is malformed or the call failed
Malformed(answer, len) ==
    \/ answer.kind \in OracleFailures \cup {"no-key"}
    \/ /\ answer.kind = "indices"
       /\ \E k \in 1..Len(answer.indices) :
              answer.indices[k] < 1 \/ answer.indices[k] > len

\* `picked` is `num` of the candidates, newest first, none of the others newer
MostRecentOf(picked, articles, num) ==
    /\ Len(picked) = num
    /\ \A k \in 1..Len(picked) : \E m \in 1..Len(articles) : picked[k] = articles[m]
    /\ \A k, m \in 1..Len(picked) : k < m =>
           /\ picked[k].id # picked[m].id
           /\ picked[k].published_date >= picked[m].published_date
    /\ \A m \in 1..Len(articles) :
           (\A k \in 1..Len(picked) : picked[k].id # articles[m].id) =>
               \A k \in 1..Len(picked) :
                   picked[k].published_date >= articles[m].published_date

\* C14: when the oracle was asked and failed or answered malformed, the
\* selection does not raise and returns the min(len(candidates), 3 * n) most
\* recently published candidates, newest first.
C14_FallbackToMostRecent ==
    (sOut.op = "select" /\ sAnswer # NotAsked /\ Malformed(sAnswer, Len(sArticles))) =>
        /\ ~sOut.raised
        /\ MostRecentOf(sOut.articles, sArticles, NumToSelect(sArticles, sN))

\* every returned article is one of the candidates
ReturnsOnlyCandidates ==
    \A k \in 1..Len(sOut.articles) :
        \E m \in 1..Len(sArticles) : sOut.articles[k] = sArticles[m]

\* C38: every article select_articles_for_fetching returns is one of the
\* candidates it was given and no candidate is returned more than once,
\* whatever list of indices the oracle answers.
C38_CandidatesAtMostOnce ==
    sOut.op = "select" =>
        /\ ReturnsOnlyCandidates
        /\ \A k, m \in 1..Len(sOut.articles) :
               sOut.articles[k].id = sOut.articles[m].id => k = m

\* the first half alone
C38_OnlyCandidates == sOut.op = "select" => ReturnsOnlyCandidates

(***************************************************************************)
(* SpecFilter: filter_article (llm_summarizer.py)                          *)
(***************************************************************************)
\* the text of an answer, by what _parse_include looks at: whether the whole
\* text is JSON and then whether it is an object; whether a {...} stretch is
\* found in it and parses; and the "include" member of the object
\* ("true", "false", "1" for a value that is no bool, "missing")
AnswerTexts ==
    [json : BOOLEAN, is_dict : BOOLEAN, braces : {"none", "valid", "invalid"},
     include : {"true", "false", "1", "missing"}]

OracleRaises == [raises |-> TRUE, text |-> <<>>]
OracleSays(text) == [raises |-> FALSE, text |-> text]
FilterAnswers == {OracleRaises} \cup {OracleSays(t) : t \in AnswerTexts}

\* data.get("include") if it is a bool, else None
IncludeMember(text) ==
    IF text.include \in {"true", "false"} THEN text.include ELSE "none"

\* _parse_include: json.loads of the text, else of the {...} stretch
ParseInclude(text) ==
    IF text.json
    THEN IF text.is_dict THEN IncludeMember(text) ELSE "none"
    ELSE IF text.braces = "valid" THEN IncludeMember(text) ELSE "none"

InitFilter ==
    /\ qQuery \in BOOLEAN
    /\ qAnswers \in [1..2 -> FilterAnswers]
    /\ qPc = "start"
    /\ qCalls = 0
    /\ qOut = FALSE
    /\ ParkedHistory
    /\ ParkedFetch
    /\ ParkedMain
    /\ ParkedConfig
    /\ ParkedSelect
    /\ ParkedExtract
    /\ ParkedDigest
    /\ ParkedLater

\* the call returns `value`
FilterReturns(value) ==
    /\ qPc' = "done"
    /\ qOut' = value

\* a mutant of the retry: an answer that cannot be parsed includes the article
FilterRetryIncluding ==
    /\ qPc = "retry"
    /\ qCalls' = qCalls + 1
    /\ LET answer == qAnswers[qCalls + 1]
       IN IF answer.raises THEN FilterReturns(FALSE)
          ELSE FilterReturns(ParseInclude(answer.text) # "false")
    /\ UNCHANGED <<qQuery, qAnswers, histVars, fetchVars, mainVars, configVars, selectVars,
                   extractVars, digestVars, laterVars>>

\* filter_article up to the end of its first oracle call
FilterStart ==
    /\ qPc = "start"
    /\ IF ~qQuery
       THEN FilterReturns(TRUE) /\ UNCHANGED qCalls
       ELSE /\ qCalls' = qCalls + 1
            /\ LET answer == qAnswers[qCalls + 1]
               IN IF answer.raises THEN FilterReturns(FALSE)
                  ELSE IF ParseInclude(answer.text) # "none"
                       THEN FilterReturns(ParseInclude(answer.text) = "true")
                  ELSE qPc' = "retry" /\ UNCHANGED qOut
    /\ UNCHANGED <<qQuery, qAnswers, histVars, fetchVars, mainVars, configVars, selectVars,
                   extractVars, digestVars, laterVars>>

\* the second oracle call, with the stricter prompt, to the end
FilterRetry ==
    /\ qPc = "retry"
    /\ qCalls' = qCalls + 1
    /\ LET answer == qAnswers[qCalls + 1]
       IN IF answer.raises THEN FilterReturns(FALSE)
          ELSE FilterReturns(ParseInclude(answer.text) = "true")
    /\ UNCHANGED <<qQuery, qAnswers, histVars, fetchVars, mainVars, configVars, selectVars,
                   extractVars, digestVars, laterVars>>

NextFilter == FilterStart \/ FilterRetry

SpecFilter == InitFilter /\ [][NextFilter]_vars

\* the answer holds a JSON object with a boolean "include"
Parseable(answer) == ~answer.raises /\ ParseInclude(answer.text) # "none"
Includes(answer) == ParseInclude(answer.text) = "true"

\* C15: with an empty query filter_article returns true without an oracle
\* call; otherwise it asks at most twice, the second time only when the
\* first answer could not be parsed, returns the include value of the first
\* answer that can be parsed, and returns false when neither can or a call
\* raises.
C15_FilterRetryThenExclude ==
    /\ qPc # "parked" => qCalls <= 2
    /\ qPc = "retry" => (qCalls = 1 /\ qQuery /\ ~qAnswers[1].raises /\ ~Parseable(qAnswers[1]))
    /\ qPc = "done" =>
         IF ~qQuery THEN qOut /\ qCalls = 0
         ELSE IF qAnswers[1].raises THEN ~qOut /\ qCalls = 1
         ELSE IF Parseable(qAnswers[1]) THEN qOut = Includes(qAnswers[1]) /\ qCalls = 1
         ELSE /\ qCalls = 2
              /\ qOut = (Parseable(qAnswers[2]) /\ Includes(qAnswers[2]))

\* C15 witness: the first answer is prose, the second one is prose around
\* {"include": true}, and the article is included after two calls
C15_Witness ==
    /\ qPc = "done" /\ qQuery /\ qCalls = 2 /\ qOut
    /\ ~qAnswers[1].raises /\ ~qAnswers[1].text.json /\ qAnswers[1].text.braces = "none"
    /\ ~qAnswers[2].raises /\ ~qAnswers[2].text.json /\ qAnswers[2].text.braces = "valid"

(***************************************************************************)
(* SpecExtract: get_content over one batch (content_extractor.py, main.py) *)
(***************************************************************************)
\* an RSS summary of at least this many words is used without fetching
MinSummaryWords == 400

\* RSS summaries: none, one of 399 words, one of 400 words
RssSummaries == {"", "summary of 399 words", "summary of 400 words"}
Words(summary) ==
    CASE summary = "" -> 0
      [] summary = "summary of 399 words" -> MinSummaryWords - 1
      [] summary = "summary of 400 words" -> MinSummaryWords

TimeoutPlaceholder == "Content unavailable due to timeout"

\* the Article as fetch_articles hands it over; raw_content is "none",
\* "bytes" or "empty" (b"")
ArticleToExtract(id, summary) ==
    [id |-> id, summary |-> summary, content |-> "", content_type |-> "",
     raw_content |-> "none"]

\* a response of _fetch_with_requests: what python-magic finds in the body
\* ("" when it raises), whether the Content-Type header holds "pdf", whether
\* the final URL ends in ".pdf", and the body
Responses ==
    {r \in [sniffed : {"application/pdf", "text/html", "application/x-empty", ""},
            header_pdf : BOOLEAN, url_pdf : BOOLEAN, body : {"bytes", "empty"}] :
        /\ r.sniffed \in {"application/pdf", "text/html"} => r.body = "bytes"
        /\ r.sniffed = "application/x-empty" => r.body = "empty"}

\* a mutant of the PDF test: only the Content-Type header is looked at
IsPdfByHeaderOnly(response) == response.header_pdf

\* is_pdf
IsPdf(response) ==
    response.sniffed = "application/pdf" \/ response.header_pdf \/ response.url_pdf

\* a mutant of the fallback: the content is left empty
NoFallback(article) == article

\* article.content = article.summary, when all fetching failed
SummaryFallback(article) == [article EXCEPT !.content = article.summary]

Batch == 1..MaxBatch

InitExtract ==
    /\ xFollow \in BOOLEAN
    /\ xArt \in {[i \in Batch |-> ArticleToExtract(i, summaries[i])] :
                    summaries \in [Batch -> RssSummaries]}
    /\ xPc = [i \in Batch |-> "start"]
    /\ xLog = [i \in Batch |-> {}]
    /\ xOut = [i \in Batch |-> <<>>]
    /\ xLinks = [i \in Batch |-> 0]
    /\ xLinkBudget = MaxSubLinks
    /\ xBatch = "running"
    /\ xProcessed = <<>>
    /\ ParkedHistory
    /\ ParkedFetch
    /\ ParkedMain
    /\ ParkedConfig
    /\ ParkedSelect
    /\ ParkedFilter
    /\ ParkedDigest
    /\ ParkedLater

OtherVarsOfExtract ==
    <<histVars, fetchVars, mainVars, configVars, selectVars, filterVars, digestVars, laterVars>>

\* get_content of article i returns [article]
ReturnsArticle(i, article, events) ==
    /\ xArt' = [xArt EXCEPT ![i] = article]
    /\ xOut' = [xOut EXCEPT ![i] = <<article>>]
    /\ xPc' = [xPc EXCEPT ![i] = "done"]
    /\ xLog' = [xLog EXCEPT ![i] = @ \cup events]
    /\ UNCHANGED <<xLinks, xLinkBudget>>

\* _get_content_impl up to its first await
GetContentStart(i) ==
    /\ xBatch = "running" /\ xPc[i] = "start"
    /\ IF xArt[i].summary # "" /\ Words(xArt[i].summary) >= MinSummaryWords
       THEN ReturnsArticle(i, [xArt[i] EXCEPT !.content = xArt[i].summary,
                                              !.content_type = "text/plain"], {"summary-used"})
       ELSE /\ xPc' = [xPc EXCEPT ![i] = "direct"]
            /\ UNCHANGED <<xArt, xOut, xLog, xLinks, xLinkBudget>>
    /\ UNCHANGED <<xFollow, xBatch, xProcessed, OtherVarsOfExtract>>

\* from the HTML of the page to the return or to the first sub-link:
\* trafilatura gives a text or nothing, the page holds n links to follow
AfterHtml(i, events) ==
    \E extracted \in {"", "extracted text"}, n \in 0..xLinkBudget :
        LET article == [xArt[i] EXCEPT
                           !.content = IF extracted # "" THEN extracted ELSE xArt[i].summary,
                           !.content_type = "text/plain"]
        IN IF ~xFollow \/ n = 0
           THEN n = 0 /\ ReturnsArticle(i, article, events \cup {"extract"})
           ELSE /\ xArt' = [xArt EXCEPT ![i] = article]
                /\ xOut' = [xOut EXCEPT ![i] = <<article>>]
                /\ xPc' = [xPc EXCEPT ![i] = "links"]
                /\ xLog' = [xLog EXCEPT ![i] = @ \cup events \cup {"extract"}]
                /\ xLinks' = [xLinks EXCEPT ![i] = n]
                /\ xLinkBudget' = xLinkBudget - n

\* the rate limit and _fetch_with_requests(article.link) have ended
DirectFetch(i) ==
    /\ xBatch = "running" /\ xPc[i] = "direct"
    /\ \/ \* requests.RequestException: response is None
          /\ xPc' = [xPc EXCEPT ![i] = "browser"]
          /\ xLog' = [xLog EXCEPT ![i] = @ \cup {"direct failed"}]
          /\ UNCHANGED <<xArt, xOut, xLinks, xLinkBudget>>
       \/ \E response \in Responses :
            LET sniff == IF response.sniffed = "application/pdf"
                         THEN {"sniffed pdf"} ELSE {}
            IN IF IsPdf(response)
               THEN ReturnsArticle(i, [xArt[i] EXCEPT !.raw_content = response.body,
                                                      !.content_type = "application/pdf"],
                                   sniff \cup {"pdf"})
               ELSE AfterHtml(i, sniff \cup {"direct html"})
    /\ UNCHANGED <<xFollow, xBatch, xProcessed, OtherVarsOfExtract>>

\* the Playwright fetch has ended: with the HTML of the page, with an empty
\* page, with an error or with its own timeout
BrowserFetch(i) ==
    /\ xBatch = "running" /\ xPc[i] = "browser"
    /\ \/ AfterHtml(i, {"browser html"})
       \/ \E failure \in {"browser empty", "browser error", "browser timeout"} :
            ReturnsArticle(i, SummaryFallback(xArt[i]), {failure})
    /\ UNCHANGED <<xFollow, xBatch, xProcessed, OtherVarsOfExtract>>

\* id of the article made for the k-th followed link of article i
LinkedId(i, k) == MaxBatch * k + i

\* one iteration of the loop over unique_links
FollowLink(i) ==
    /\ xBatch = "running" /\ xPc[i] = "links"
    /\ LET k == xLinks[i]
           linked == ArticleToExtract(LinkedId(i, k), "")
       IN \E outcome \in {"failed", "pdf", "text", "nothing"} :
            /\ xOut' = [xOut EXCEPT ![i] =
                   CASE outcome = "pdf" ->
                          Append(@, [linked EXCEPT !.raw_content = "bytes",
                                                   !.content_type = "application/pdf"])
                     [] outcome = "text" ->
                          Append(@, [linked EXCEPT !.content = "extracted text",
                                                   !.content_type = "text/plain"])
                     [] OTHER -> @]
            /\ xLinks' = [xLinks EXCEPT ![i] = k - 1]
            /\ xPc' = [xPc EXCEPT ![i] = IF k = 1 THEN "done" ELSE "links"]
            /\ xLog' = [xLog EXCEPT ![i] = @ \cup {"link"}]
    /\ UNCHANGED <<xFollow, xArt, xLinkBudget, xBatch, xProcessed, OtherVarsOfExtract>>

\* a mutant of get_content: the TimeoutError is not caught
GetContentTimeoutAborting(i) ==
    /\ xBatch = "running" /\ xPc[i] \in {"direct", "browser", "links"}
    /\ xBatch' = "raised"
    /\ xLog' = [xLog EXCEPT ![i] = @ \cup {"overall timeout"}]
    /\ UNCHANGED <<xFollow, xArt, xPc, xOut, xLinks, xLinkBudget, xProcessed,
                   OtherVarsOfExtract>>

\* get_content: asyncio.wait_for cancels _get_content_impl at one of its
\* awaits after 120 s
GetContentTimeout(i) ==
    /\ xBatch = "running" /\ xPc[i] \in {"direct", "browser", "links"}
    /\ LET article == [xArt[i] EXCEPT
                          !.content = IF xArt[i].summary # "" THEN xArt[i].summary
                                      ELSE TimeoutPlaceholder,
                          !.content_type = "text/plain"]
       IN /\ xArt' = [xArt EXCEPT ![i] = article]
          /\ xOut' = [xOut EXCEPT ![i] = <<article>>]
    /\ xPc' = [xPc EXCEPT ![i] = "done"]
    /\ xLog' = [xLog EXCEPT ![i] = @ \cup {"overall timeout"}]
    /\ xLinks' = [xLinks EXCEPT ![i] = 0]
    /\ UNCHANGED <<xFollow, xLinkBudget, xBatch, xProcessed, OtherVarsOfExtract>>

RECURSIVE Flatten(_, _)
Flatten(lists, upto) ==
    IF upto = 0 THEN <<>> ELSE Flatten(lists, upto - 1) \o lists[upto]

\* batch_results = await asyncio.gather(...); processed_articles.extend(...)
Gather ==
    /\ xBatch = "running"
    /\ \A i \in Batch : xPc[i] = "done"
    /\ xBatch' = "gathered"
    /\ xProcessed' = Flatten(xOut, MaxBatch)
    /\ UNCHANGED <<xFollow, xArt, xPc, xLog, xOut, xLinks, xLinkBudget, OtherVarsOfExtract>>

NextExtract ==
    \/ \E i \in Batch : GetContentStart(i)
    \/ \E i \in Batch : DirectFetch(i)
    \/ \E i \in Batch : BrowserFetch(i)
    \/ \E i \in Batch : FollowLink(i)
    \/ \E i \in Batch : GetContentTimeout(i)
    \/ Gather

SpecExtract == InitExtract /\ [][NextExtract]_vars

\* C16: an article with an RSS summary of fewer than 400 words whose direct
\* fetch failed and whose browser fetch failed (error or timeout) is
\* returned alone, with its content equal to its RSS summary, and nothing
\* is raised.
C16_FallbackToSummary ==
    \A i \in Batch :
        (/\ xBatch # "parked"
         /\ Words(xArt[i].summary) < MinSummaryWords
         /\ "direct failed" \in xLog[i]
         /\ xLog[i] \cap {"browser error", "browser timeout"} # {}) =>
            /\ xBatch # "raised"
            /\ xPc[i] = "done"
            /\ Len(xOut[i]) = 1
            /\ xOut[i][1].id = i
            /\ xOut[i][1].content = xOut[i][1].summary
            /\ xOut[i][1].raw_content = "none"

\* C16 witness: an article with a 399-word summary came back with that
\* summary as content after both fetches failed
C16_Witness ==
    /\ xBatch = "gathered"
    /\ xLog[1] = {"direct failed", "browser timeout"}
    /\ xOut[1][1].content = "summary of 399 words"

\* C17: an article whose fetched body was found to be application/pdf is
\* returned alone with the fetched, non-empty bytes as raw_content,
\* content_type "application/pdf" and no content; no text was extracted,
\* no browser used and no link followed for it.
C17_PdfKeptRaw ==
    \A i \in Batch :
        (xBatch # "parked" /\ "sniffed pdf" \in xLog[i]) =>
            /\ xPc[i] = "done"
            /\ xOut[i] = <<[ArticleToExtract(i, xArt[i].summary) EXCEPT
                               !.raw_content = "bytes",
                               !.content_type = "application/pdf"]>>
            /\ xLog[i] = {"sniffed pdf", "pdf"}

\* C17 witness: a PDF named by its bytes alone, in a batch that follows links
C17_Witness ==
    /\ xBatch = "gathered" /\ xFollow
    /\ "sniffed pdf" \in xLog[2]
    /\ xOut[2][1].raw_content = "bytes"
    /\ Len(xProcessed) > MaxBatch

\* C18: an article whose extraction was cut by the overall timeout is
\* returned alone with its RSS summary (the placeholder when it has none) as
\* content and content_type "text/plain"; the timeout changes nothing of the
\* other articles of the batch, and the batch ends with every article in
\* processed_articles.
TimedOutArticleFallsBack ==
    \A i \in Batch :
        (xBatch # "parked" /\ "overall timeout" \in xLog[i]) =>
            /\ xBatch # "raised"
            /\ xPc[i] = "done"
            /\ Len(xOut[i]) = 1
            /\ xOut[i][1].id = i
            /\ xOut[i][1].content =
                   (IF xArt[i].summary # "" THEN xArt[i].summary ELSE TimeoutPlaceholder)
            /\ xOut[i][1].content_type = "text/plain"
            /\ xBatch = "gathered" =>
                   \A j \in Batch : \E k \in 1..Len(xProcessed) : xProcessed[k] = xOut[j][1]

TimeoutLeavesOthers ==
    \A i \in Batch :
        ("overall timeout" \in xLog'[i] /\ "overall timeout" \notin xLog[i]) =>
            \A j \in Batch \ {i} :
                /\ xArt'[j] = xArt[j] /\ xPc'[j] = xPc[j] /\ xOut'[j] = xOut[j]
                /\ xLog'[j] = xLog[j] /\ xLinks'[j] = xLinks[j]

\* no article has timed out initially, so the state part is checked on the
\* state each step leads to
C18_TimeoutDegradesOneArticle ==
    [][TimeoutLeavesOthers /\ TimedOutArticleFallsBack']_vars

\* C18 witness: the first article, without summary, timed out after its page
\* was extracted, while its links were followed; the second one was extracted
\* and both were gathered
C18_Witness ==
    /\ xBatch = "gathered"
    /\ {"overall timeout", "extract"} \subseteq xLog[1]
    /\ xOut[1][1].content = TimeoutPlaceholder
    /\ "extract" \in xLog[2] /\ "overall timeout" \notin xLog[2]
    /\ xOut[2][1].content = "extracted text"

(***************************************************************************)
(* SpecDigest: the digest history (document_generator.py)                  *)
(***************************************************************************)
\* max_stored = max(context_digest_size * 2, 10)
MinStored == 10

Max(a, b) == IF a >= b THEN a ELSE b

MaxStored(context_digest_size) == Max(context_digest_size * 2, MinStored)

\* the slice list[-n:] for n >= 0: -0 is 0, so list[-0:] is the whole list
LastSlice(list, n) ==
    IF n = 0 \/ n >= Len(list) THEN list
    ELSE SubSeq(list, Len(list) - n + 1, Len(list))

NoDigestHistory == [exists |-> FALSE, digests |-> <<>>]

\* load_previous_digests
LoadPreviousDigests(file, context_digest_size) ==
    IF ~file.exists THEN <<>> ELSE LastSlice(file.digests, context_digest_size)

\* save_digest_to_history: the digest is appended and the last max_stored kept
SaveDigest(file, digest, context_digest_size) ==
    [exists |-> TRUE,
     digests |-> LastSlice(Append(file.digests, digest), MaxStored(context_digest_size))]

InitDigest ==
    /\ dSize \in 0..MaxContext
    /\ dFile = NoDigestHistory
    /\ dSaved = <<>>
    /\ dLoaded = [op |-> "none", digests |-> <<>>, at |-> 0]
    /\ ParkedHistory
    /\ ParkedFetch
    /\ ParkedMain
    /\ ParkedConfig
    /\ ParkedSelect
    /\ ParkedFilter
    /\ ParkedExtract
    /\ ParkedLater

OtherVarsOfDigest ==
    <<histVars, fetchVars, mainVars, configVars, selectVars, filterVars, extractVars,
      laterVars>>

\* document_generator.save_digest_to_history(collection_summaries, date);
\* the digests are numbered in the order saved
save_digest_to_history ==
    /\ dLoaded.op # "parked"
    /\ Len(dSaved) < MaxSaves
    /\ LET digest == Len(dSaved) + 1
       IN /\ dFile' = SaveDigest(dFile, digest, dSize)
          /\ dSaved' = Append(dSaved, digest)
    /\ UNCHANGED <<dSize, dLoaded, OtherVarsOfDigest>>

\* document_generator.load_previous_digests()
load_previous_digests ==
    /\ dLoaded.op # "parked"
    /\ dLoaded' = [op |-> "load", digests |-> LoadPreviousDigests(dFile, dSize),
                    at |-> Len(dSaved)]
    /\ UNCHANGED <<dSize, dFile, dSaved, OtherVarsOfDigest>>

NextDigest == save_digest_to_history \/ load_previous_digests

SpecDigest == InitDigest /\ [][NextDigest]_vars

\* `part` is the end of `whole`
IsSuffix(part, whole) ==
    /\ Len(part) <= Len(whole)
    /\ \A k \in 1..Len(part) : part[k] = whole[Len(whole) - Len(part) + k]

\* C20: the stored digest history is the last max(2 * context_digest_size,
\* 10) digests saved (all of them while fewer were saved), in the order
\* saved, and load_previous_digests returns at most context_digest_size
\* digests, the most recent ones with the most recent last.
C20_DigestRetention ==
    dLoaded.op # "parked" =>
        /\ Len(dFile.digests) = Min(Len(dSaved), Max(2 * dSize, 10))
        /\ IsSuffix(dFile.digests, dSaved)
        /\ Len(dLoaded.digests) <= dSize
        /\ IsSuffix(dLoaded.digests, SubSeq(dSaved, 1, dLoaded.at))

(***************************************************************************)
(* Claims on main() (Spec)                                                 *)
(***************************************************************************)
\* C1: whenever fetch_articles returns a list for a collection, the list
\* holds no id that a commit step of an earlier run saved to the history of
\* that collection (the feed is the same in every run).
C1_NoRefetchOfCommitted ==
    [][\A c \in Collections :
           mFetched'[c] # mFetched[c] =>
               SeqIds(mFetched'[c]) \cap mCommitted[c] = {}]_vars

\* C1 witness: in a second run the feed still lists the article committed
\* in the first one and fetch_articles returns only the other one
C1_Witness ==
    /\ mRun = 2
    /\ mCommitted[1] = {1}
    /\ mFetched[1] # <<>>
    /\ SeqIds(mFetched[1]) = (1..MaxLinks) \ {1}

\* C2: once process_collection has raised for a collection, the history
\* file of that collection stays as the run found it.
C2_RaisedCollectionKeepsHistory ==
    \A c \in mRaised : mHistFile[c] = mHistAtStart[c]

\* C2 witness: main finished, the first collection raised after it had
\* fetched articles, and another collection was committed
C2_Witness ==
    /\ mEnd = "finished"
    /\ 1 \in mRaised
    /\ mFetched[1] # <<>>
    /\ \E d \in Collections : mHistFile[d] # mHistAtStart[d]

\* C3: in a run whose delivery step failed, no article is written to
\* history.
C3_NoCommitAfterFailedDelivery ==
    mDelivery = "failed" => mHistFile = mHistAtStart

NoPdfSummarized ==
    \A k \in Keys : \A n \in 1..Len(mArticlesBy[k].articles) :
        ~mArticlesBy[k].articles[n].raw_content

\* C4: when main has ended, every collection that raised is recorded as a
\* collection error with a placeholder result, and every other collection
\* was processed and has its summarized articles in its history.  Stated for
\* the runs in which the output step returned and no summarized article
\* carries PDF bytes.
C4_OtherCollectionsCommitted ==
    (mEnd \in {"finished", "aborted"} /\ mDelivery # "raised" /\ NoPdfSummarized) =>
        \A c \in mRaised :
            /\ BaseName(c) \in mErrors
            /\ mArticlesBy[BaseName(c)] = ResultOf(<<>>)
            /\ \A d \in (1..mFiles) \ mRaised :
                   /\ mArticlesBy[Name(d)].present
                   /\ SeqIds(mArticlesBy[Name(d)].articles)
                          \subseteq SeqIds(LoadHistoricalArticles(mHistFile[d]).articles)

\* the commit step of collection c has been passed in the current run
CommitPassed(c) == mEnd = "finished" \/ (mPc = "commit" /\ c < mI)

\* C24: the history of a collection never holds an id that was neither in it
\* when the run started nor among the articles that process_collection
\* returned for the collection (those summarize_articles_collection
\* returned); a fetched article that was not returned is not in the history;
\* and once the commit step of the collection has been passed, the history
\* holds exactly the ids it held at the start and those of the returned
\* articles.
C24_HistoryGainsReturnedOnly ==
    \A c \in 1..mFiles :
        LET returned == SeqIds(mArticlesBy[Name(c)].articles)
            before == SeqIds(mHistAtStart[c].items)
            now == SeqIds(mHistFile[c].items)
        IN /\ now \subseteq before \cup returned
           /\ (SeqIds(mFetched[c]) \ returned) \cap now = {}
           /\ CommitPassed(c) => now = before \cup returned

\* C24 witness: main finished; of the two articles fetched for the first
\* collection only the second was returned, and only it is in the history
C24_Witness ==
    /\ mEnd = "finished"
    /\ SeqIds(mFetched[1]) = {1, 2}
    /\ SeqIds(mArticlesBy[Name(1)].articles) = {2}
    /\ SeqIds(mHistFile[1].items) = {2}

\* a step saves the digest timestamp of collection c
StampsDigestTime(c) == mDigestFile'[c] # mDigestFile[c]

\* a step commits at least one article to the history of collection c: the
\* file is rewritten, complete, with ids it did not hold
CommitsArticles(c) ==
    /\ mHistFile'[c] # mHistFile[c]
    /\ mHistFile'[c].complete
    /\ SeqIds(mHistFile'[c].items) \ SeqIds(mHistFile[c].items) # {}

\* the timestamp stored for c is that of the current run
StampedInThisRun(c) ==
    mRun > 0 /\ mDigestFile[c].exists /\ mDigestFile[c].last_digest_time = mRun

\* a collection stamped in the current run did not fail and had articles
\* fetched and summarized in it
StampedRunsHadArticles ==
    \A c \in Collections :
        StampedInThisRun(c) =>
            /\ c \notin mRaised
            /\ mFetched[c] # <<>>
            /\ mArticlesBy[Name(c)].present /\ mArticlesBy[Name(c)].articles # <<>>

LastWithId(articles, i) ==
    articles[CHOOSE k \in 1..Len(articles) :
                /\ articles[k].id = i
                /\ \A m \in (k + 1)..Len(articles) : articles[m].id # i]

\* the history is the union, keyed by id, of prior and given, given winning
IsUnionById(stored, prior, given) ==
    /\ SeqIds(stored) = SeqIds(prior) \cup SeqIds(given)
    /\ \A k, m \in 1..Len(stored) : stored[k].id = stored[m].id => k = m
    /\ \A k \in 1..Len(stored) :
         stored[k] = IF stored[k].id \in SeqIds(given)
                     THEN LastWithId(given, stored[k].id)
                     ELSE LastWithId(prior, stored[k].id)

SaveFinished == hPc = "idle" /\ hLast.op = "save"
PriorReadable == ~LoadHistoricalArticles(hPrevFile).raised

\* C7: whenever save_selected_articles_to_history has run on a readable
\* history, the history file holds the union, keyed by id, of the prior
\* history and the given articles, the given article winning on a conflict;
\* so no id the history held is lost.
C7_SaveLeavesUnion ==
    (SaveFinished /\ PriorReadable) =>
        LET after == LoadHistoricalArticles(hFile)
        IN /\ ~after.raised
           /\ IsUnionById(after.articles,
                          LoadHistoricalArticles(hPrevFile).articles, hGiven)

\* C8: after a process kill during save_selected_articles_to_history the
\* history file holds the complete previous history or the complete new one.
C8_CrashLeavesOldOrNew ==
    hLast.op = "crash" =>
        \/ hFile = hPrevFile
        \/ hFile = FileOf(DictOf(MergeSelected(
                       DictOf(LoadHistoricalArticles(hPrevFile).articles), hGiven)), TRUE)

\* C36: save_selected_articles_to_history completes for every list of
\* articles it is given on a readable history, articles with raw_content
\* bytes included, and _load_historical_articles then returns articles with
\* exactly the ids of the prior history and of the saved articles.
C36_SaveCompletesAndLoadsIds ==
    (SaveFinished /\ PriorReadable) =>
        /\ ~hLast.raised
        /\ LET after == LoadHistoricalArticles(hFile)
           IN /\ ~after.raised
              /\ SeqIds(after.articles) =
                     SeqIds(LoadHistoricalArticles(hPrevFile).articles) \cup SeqIds(hGiven)

\* the same for lists without raw_content bytes
C36_SaveOfTextArticles ==
    (SaveFinished /\ PriorReadable /\ \A k \in 1..Len(hGiven) : Encodable(hGiven[k])) =>
        /\ ~hLast.raised
        /\ SeqIds(LoadHistoricalArticles(hFile).articles) =
               SeqIds(LoadHistoricalArticles(hPrevFile).articles) \cup SeqIds(hGiven)

\* C9: _load_historical_articles never raises; it returns the empty history
\* for a missing file and for a file that does not parse.
C9_LoadNeverRaises ==
    hLast.op = "load" =>
        /\ ~hLast.raised
        /\ (~hFile.exists \/ ~hFile.complete) => hLast.articles = <<>>

(***************************************************************************)
(* Claims on fetch_articles (SpecFetch, SpecAge)                           *)
(***************************************************************************)
FetchReturned == fOut.op = "fetch" /\ ~fOut.raised

\* C5: a call of fetch_articles leaves the persisted article history and
\* the persisted digest timestamp as they were, whatever the feeds answer.
C5_FetchWritesNoHistory ==
    [][(fOut.op = "none" /\ fOut'.op = "fetch") =>
           (fHistFile' = fHistFile /\ fDigestFile' = fDigestFile)]_vars

\* C5 witness: a call that returned new articles on a non-empty history
\* while one feed failed and another was cut by its cap
C5_Witness ==
    /\ FetchReturned
    /\ fOut.articles # <<>>
    /\ fHistFile.complete /\ fHistFile.items # <<>>
    /\ \E f \in 1..Len(fOut.results) : ~fOut.results[f].success
    /\ \E f \in 1..Len(fFeeds) :
         fFeeds[f].fetched /\ fFeeds[f].max_articles > 0
             /\ Len(fFeeds[f].entries) > fFeeds[f].max_articles

\* C6: the list fetch_articles returns holds each article id at most once.
C6_NoDuplicateIds ==
    FetchReturned =>
        \A k, m \in 1..Len(fOut.articles) :
            fOut.articles[k].id = fOut.articles[m].id => k = m

\* minutes of a relative max_age "<N>h", "<N>d", "<N>m"
SpanMinutes(max_age) ==
    CASE max_age.unit = "h" -> 60 * max_age.n
      [] max_age.unit = "d" -> 24 * 60 * max_age.n
      [] max_age.unit = "m" -> max_age.n

IsRelative(max_age) == max_age.kind = "span" /\ max_age.unit \in {"h", "d", "m"}

\* the <<link, date>> pairs of the entries that are not in history and not
\* earlier than the instant `earliest`, in feed order
RECURSIVE FreshEntries(_, _, _)
FreshEntries(entries, known, earliest) ==
    IF entries = <<>> THEN <<>>
    ELSE LET e == Head(entries)
             date == IF e.published_parsed.has THEN e.published_parsed.t ELSE fNow
             rest == FreshEntries(Tail(entries), known, earliest)
         IN IF e.link \notin known /\ date >= earliest
            THEN <<<<e.link, date>>>> \o rest ELSE rest

\* C10: with a relative max_age and no cap, fetch_articles returns exactly
\* the entries that are not in history and whose published date is not
\* earlier than now minus the span.
C10_AgeCutoff ==
    (FetchReturned /\ IsRelative(fMaxAge)) =>
        [k \in 1..Len(fOut.articles) |->
            <<fOut.articles[k].id, fOut.articles[k].published_date>>]
          = FreshEntries(fFeeds[1].entries, SeqIds(fHistFile.items),
                         fNow - SpanMinutes(fMaxAge))

\* C10 witness: max_age "2d", entries dated 1 and 5 days ago, the 1-day one
\* returned alone
C10_Witness ==
    /\ FetchReturned
    /\ fMaxAge = SpanOf(2, "d")
    /\ Len(fFeeds) = 1 /\ Len(fFeeds[1].entries) = 2
    /\ fFeeds[1].entries[1].published_parsed = TimeOf(fNow - MinutesPerDay)
    /\ fFeeds[1].entries[2].published_parsed = TimeOf(fNow - 5 * MinutesPerDay)
    /\ fFeeds[1].entries[1].link # fFeeds[1].entries[2].link
    /\ Len(fOut.articles) = 1
    /\ fOut.articles[1].id = fFeeds[1].entries[1].link

\* the entries of a feed that are not in history, in feed order
NewEntries(entries, known) ==
    FreshEntries(entries, known, MinDatetime)

\* C12: the cutoff of a call is now minus N hours, days or minutes for
\* "<N>h", "<N>d", "<N>m", the stored last-digest timestamp for
\* "last-digest" (none when none is stored), and none for an absent
\* max_age; with no cutoff every entry that is not in history is returned.
C12_CutoffResolution ==
    fOut.op = "fetch" =>
        /\ IsRelative(fMaxAge) =>
               ~fOut.raised /\ fOut.cutoff_date = TimeOf(fNow - SpanMinutes(fMaxAge))
        /\ (fMaxAge = LastDigest /\ ~fOut.raised) =>
               fOut.cutoff_date =
                   (IF fDigestFile.exists /\ fDigestFile.readable
                    THEN TimeOf(fDigestFile.last_digest_time) ELSE NoTime)
        /\ (fMaxAge = NoMaxAge /\ ~fOut.raised) => fOut.cutoff_date = NoTime
        /\ (~fOut.raised /\ fOut.cutoff_date = NoTime) =>
               [k \in 1..Len(fOut.articles) |->
                   <<fOut.articles[k].id, fOut.articles[k].published_date>>]
                 = NewEntries(fFeeds[1].entries, SeqIds(fHistFile.items))

\* C19: after fetch_articles the report holds one entry per configured
\* feed: total_feeds is the number of configured feeds and the sum of the
\* successful and the failed ones, and a feed is reported failed exactly
\* when it failed after its retries or raised while its entries were
\* processed.
C19_OneReportEntryPerFeed ==
    FetchReturned =>
        /\ Len(fOut.results) = Len(fFeeds)
        /\ fReport.total_feeds = Len(fFeeds)
        /\ fReport.total_feeds = Cardinality(fReport.successful) + Cardinality(fReport.failed)
        /\ \A k \in 1..Len(fFeeds) :
               IF fOut.results[k].success
               THEN fUrls[k] \in fReport.successful
               ELSE fUrls[k] \in fReport.failed

(***************************************************************************)
(* SpecNaive: _is_article_too_old on datetimes with and without tzinfo     *)
(* (rss_fetcher.py).  A datetime is its wall-clock reading in hours and    *)
(* its tzinfo: None, or a fixed offset from UTC in hours.                  *)
(***************************************************************************)
NoTzinfo == [aware |-> FALSE, utcoffset |-> 0]
FixedOffset(hours) == [aware |-> TRUE, utcoffset |-> hours]
Utc == FixedOffset(0)

Datetime(wall, tzinfo) == [wall |-> wall, tzinfo |-> tzinfo]
NoDatetime == [none |-> TRUE]

\* datetime.replace(tzinfo=timezone.utc): the wall-clock reading is kept
ReplaceTzinfo(d, tzinfo) == [d EXCEPT !.tzinfo = tzinfo]

\* a < b on datetimes: two naive ones compare their readings, two aware ones
\* their instants, one of each is a TypeError
DatetimeLess(a, b) ==
    IF (a.tzinfo = NoTzinfo) # (b.tzinfo = NoTzinfo)
    THEN [raised |-> TRUE, value |-> FALSE]
    ELSE IF a.tzinfo = NoTzinfo
    THEN [raised |-> FALSE, value |-> a.wall < b.wall]
    ELSE [raised |-> FALSE,
          value |-> a.wall - a.tzinfo.utcoffset < b.wall - b.tzinfo.utcoffset]

\* a mutant of _is_article_too_old: the article date is compared as it is
IsArticleTooOldAsGiven(article_date, cutoff_date) ==
    IF cutoff_date = NoDatetime THEN [raised |-> FALSE, value |-> FALSE]
    ELSE LET cutoff == IF cutoff_date.tzinfo = NoTzinfo
                       THEN ReplaceTzinfo(cutoff_date, Utc) ELSE cutoff_date
         IN DatetimeLess(article_date, cutoff)

\* _is_article_too_old on datetimes with their tzinfo
IsArticleTooOldTz(article_date, cutoff_date) ==
    IF cutoff_date = NoDatetime THEN [raised |-> FALSE, value |-> FALSE]
    ELSE LET article == IF article_date.tzinfo = NoTzinfo
                        THEN ReplaceTzinfo(article_date, Utc) ELSE article_date
             cutoff == IF cutoff_date.tzinfo = NoTzinfo
                       THEN ReplaceTzinfo(cutoff_date, Utc) ELSE cutoff_date
         IN DatetimeLess(article, cutoff)

Datetimes ==
    {Datetime(w, z) : w \in 0..MaxHour,
                      z \in {NoTzinfo, FixedOffset(-1), Utc, FixedOffset(1)}}

InitNaive ==
    /\ tArticleDate \in Datetimes
    /\ tCutoffDate \in Datetimes \cup {NoDatetime}
    /\ tOut = [op |-> "none"]
    /\ ParkedHistory
    /\ ParkedFetch
    /\ ParkedMain
    /\ ParkedConfig
    /\ ParkedSelect
    /\ ParkedFilter
    /\ ParkedExtract
    /\ ParkedDigest
    /\ ParkedLaterBut("naive")

\* fetcher._is_article_too_old(article_date, cutoff_date)
is_article_too_old ==
    /\ tOut.op = "none"
    /\ LET result == IsArticleTooOldTz(tArticleDate, tCutoffDate)
       IN tOut' = [op |-> "is_article_too_old", raised |-> result.raised,
                   value |-> result.value]
    /\ UNCHANGED <<tArticleDate, tCutoffDate, earlierVars>>
    /\ UnchangedLaterBut("naive")

SpecNaive == InitNaive /\ [][is_article_too_old]_vars

\* the instant of a datetime, a naive one read as UTC
InstantOf(d) == IF d.tzinfo.aware THEN d.wall - d.tzinfo.utcoffset ELSE d.wall

\* C22: _is_article_too_old does not raise, whatever the tzinfo of the two
\* datetimes; without cutoff it answers False, and with one it answers True
\* exactly when the instant of the article date, a naive one read as UTC,
\* is strictly before the instant of the cutoff.
C22_NaiveDatesCompared ==
    tOut.op = "is_article_too_old" =>
        /\ ~tOut.raised
        /\ tOut.value = (/\ tCutoffDate # NoDatetime
                         /\ InstantOf(tArticleDate) < InstantOf(tCutoffDate))

\* C22 witness: a naive article date one hour before an aware cutoff
C22_Witness ==
    /\ tOut.op = "is_article_too_old"
    /\ tArticleDate = Datetime(1, NoTzinfo)
    /\ tCutoffDate = Datetime(2, Utc)
    /\ tOut.value

(***************************************************************************)
(* SpecTruncate: _truncate_text_to_token_limit (llm_summarizer.py)         *)
(***************************************************************************)
TOKEN_TO_CHAR_RATIO == 4

\* the slice text[:n]; a negative n counts from the end
SliceTo(text, n) ==
    IF n >= Len(text) THEN text
    ELSE IF n >= 0 THEN SubSeq(text, 1, n)
    ELSE IF Len(text) + n > 0 THEN SubSeq(text, 1, Len(text) + n)
    ELSE <<>>

\* a mutant of _truncate_text_to_token_limit: the slice is cut at
\* token_limit characters
TruncateAtTokenLimit(text, token_limit) ==
    LET char_limit == token_limit * TOKEN_TO_CHAR_RATIO
    IN IF Len(text) > char_limit
       THEN [text |-> SliceTo(text, token_limit), was_truncated |-> TRUE]
       ELSE [text |-> text, was_truncated |-> FALSE]

\* _truncate_text_to_token_limit(text, token_limit)
TruncateTextToTokenLimit(text, token_limit) ==
    LET char_limit == token_limit * TOKEN_TO_CHAR_RATIO
    IN IF Len(text) > char_limit
       THEN [text |-> SliceTo(text, char_limit), was_truncated |-> TRUE]
       ELSE [text |-> text, was_truncated |-> FALSE]

Characters == {"a", "b"}

InitTruncate ==
    /\ uText \in SeqsUpTo(Characters, MaxText)
    /\ uLimit \in 0..MaxTokens
    /\ uOut = [op |-> "none"]
    /\ ParkedHistory
    /\ ParkedFetch
    /\ ParkedMain
    /\ ParkedConfig
    /\ ParkedSelect
    /\ ParkedFilter
    /\ ParkedExtract
    /\ ParkedDigest
    /\ ParkedLaterBut("truncate")

\* summarizer._truncate_text_to_token_limit(text, token_limit)
truncate_text_to_token_limit ==
    /\ uOut.op = "none"
    /\ LET result == TruncateTextToTokenLimit(uText, uLimit)
       IN uOut' = [op |-> "truncate", text |-> result.text,
                   was_truncated |-> result.was_truncated]
    /\ UNCHANGED <<uText, uLimit, earlierVars>>
    /\ UnchangedLaterBut("truncate")

SpecTruncate == InitTruncate /\ [][truncate_text_to_token_limit]_vars

\* C23: for a token limit T >= 0, _truncate_text_to_token_limit(text, T)
\* returns the first 4*T characters of text and True when text is longer
\* than 4*T, text itself and False otherwise; the returned text is a prefix
\* of text of at most 4*T characters.
C23_TruncationIsPrefix ==
    uOut.op = "truncate" =>
        /\ Len(uText) > 4 * uLimit =>
               /\ uOut.was_truncated
               /\ Len(uOut.text) = 4 * uLimit
        /\ Len(uText) <= 4 * uLimit =>
               /\ ~uOut.was_truncated
               /\ uOut.text = uText
        /\ Len(uOut.text) <= 4 * uLimit
        /\ \A k \in 1..Len(uOut.text) : uOut.text[k] = uText[k]

\* C23 witness: a text of five characters cut to the four of one token
C23_Witness ==
    /\ uOut.op = "truncate"
    /\ uLimit = 1
    /\ Len(uText) = 5
    /\ uOut.was_truncated
    /\ uOut.text = SubSeq(uText, 1, 4)

(***************************************************************************)
(* SpecSummarize: summarize_articles_collection and the summarize_text     *)
(* tasks it gathers (llm_summarizer.py).  A text is kept as how it opens,  *)
(* its length in characters and the link it ends with (0: none).           *)
(***************************************************************************)
MAX_PDF_BYTES == 290000
COLLECTION_PROMPT_OVERHEAD_CHARS == 500

TextOf(opening, length, link) == [opening |-> opening, length |-> length, link |-> link]
NoText == TextOf("", 0, 0)

\* text.startswith("[Error:")
StartsWithError(text) == text.opening = "[Error:"

\* an article with the fields the summarizer reads; the title has 24
\* characters, the link 20 and the feed name 6
ArticleToSummarize(id, content, pdf_bytes) ==
    [id |-> id, title_length |-> 24, link_length |-> 20, feed_name_length |-> 6,
     content |-> content, raw_content |-> pdf_bytes,
     content_type |-> IF pdf_bytes > 0 THEN "application/pdf" ELSE "text/plain",
     summary |-> TextOf("rss", 50, 0)]

\* "\n\n[{feed_name}]({link})"
AttributionLength(article) == 2 + 1 + article.feed_name_length + 2 + article.link_length + 1

\* the summary of a failed article: "[Error: ...]" and the attribution; the
\* message has `length` characters
ErrorSummary(article, length) ==
    TextOf("[Error:", length + AttributionLength(article), article.id)

\* what litellm.acompletion does for one call: it raises (with or without
\* " multimodal " in the message), or it answers a content that is None or
\* a text; an answered text may itself open with "[Error:" or be empty
OracleRaisesWith(message) == [raises |-> TRUE, message |-> message, content |-> NoText,
                              none |-> FALSE]
OracleContent(content) == [raises |-> FALSE, message |-> "", content |-> content,
                           none |-> FALSE]
OracleNone == [raises |-> FALSE, message |-> "", content |-> NoText, none |-> TRUE]
SummaryOutcomes ==
    {OracleRaisesWith("other"), OracleRaisesWith("multimodal"), OracleNone,
     OracleContent(NoText), OracleContent(TextOf("[Error:", 100, 0))}
        \cup {OracleContent(TextOf("text", 100 * k, 0)) : k \in 1..MaxAnswer}

\* a mutant of the size test: every PDF is sent
UsePdfOfAnySize(article) ==
    article.content_type = "application/pdf" /\ article.raw_content > 0

\* use_pdf: the article is a PDF with bytes, of at most MAX_PDF_BYTES
UsePdf(article) ==
    /\ article.content_type = "application/pdf" /\ article.raw_content > 0
    /\ ~(article.raw_content > MAX_PDF_BYTES)

\* the message of the call: the base64 of the PDF with a text prompt, or
\* the prompt built from article.content
MessageSent(article) == IF UsePdf(article) THEN "pdf" ELSE "text"

\* a mutant of summarize_text: the except branch raises again
SummarizeTextRaising(article, outcome) ==
    IF ~article.content /\ article.raw_content = 0
    THEN [raised |-> FALSE, called |-> FALSE, sent |-> "none", article |-> article]
    ELSE IF /\ article.content_type = "application/pdf" /\ article.raw_content > 0
            /\ article.raw_content > MAX_PDF_BYTES /\ ~article.content
    THEN [raised |-> FALSE, called |-> FALSE, sent |-> "none",
          article |-> [article EXCEPT !.summary = ErrorSummary(article, 100)]]
    ELSE IF outcome.raises \/ outcome.none
    THEN [raised |-> TRUE, called |-> TRUE, sent |-> MessageSent(article), article |-> article]
    ELSE [raised |-> FALSE, called |-> TRUE, sent |-> MessageSent(article),
          article |-> [article EXCEPT !.summary =
                          TextOf(IF outcome.content.length = 0 THEN "attribution"
                                 ELSE outcome.content.opening,
                                 outcome.content.length + AttributionLength(article),
                                 article.id)]]

\* summarize_text(article): no content at all returns the article as it is;
\* a PDF over MAX_PDF_BYTES without text gets the error summary without a
\* call; otherwise the oracle is called once, and any exception of the try
\* block (a raising call, a None content) gives the error summary
SummarizeText(article, outcome) ==
    IF ~article.content /\ article.raw_content = 0
    THEN [raised |-> FALSE, called |-> FALSE, sent |-> "none", article |-> article]
    ELSE IF /\ article.content_type = "application/pdf" /\ article.raw_content > 0
            /\ article.raw_content > MAX_PDF_BYTES /\ ~article.content
    THEN [raised |-> FALSE, called |-> FALSE, sent |-> "none",
          article |-> [article EXCEPT !.summary = ErrorSummary(article, 100)]]
    ELSE IF outcome.raises \/ outcome.none
    THEN [raised |-> FALSE, called |-> TRUE, sent |-> MessageSent(article),
          article |-> [article EXCEPT !.summary =
                          ErrorSummary(article,
                                       IF outcome.message = "multimodal" THEN 49 ELSE 36)]]
    ELSE [raised |-> FALSE, called |-> TRUE, sent |-> MessageSent(article),
          article |-> [article EXCEPT !.summary =
                          TextOf(IF outcome.content.length = 0 THEN "attribution"
                                 ELSE outcome.content.opening,
                                 outcome.content.length + AttributionLength(article),
                                 article.id)]]

\* len(f"Title: {art.title}\nLink: {art.link}\nSummary: {art.summary}")
ArticleSummaryLength(art) ==
    7 + art.title_length + 7 + art.link_length + 10 + art.summary.length

\* [a for a in summarized_articles
\*  if a.summary and not a.summary.startswith("[Error:")]
RECURSIVE EffectivelySummarized(_)
EffectivelySummarized(articles) ==
    IF articles = <<>> THEN <<>>
    ELSE LET a == Head(articles)
             rest == EffectivelySummarized(Tail(articles))
         IN IF a.summary.length > 0 /\ ~StartsWithError(a.summary)
            THEN <<a>> \o rest ELSE rest

\* int(token_size_threshold * 0.75)
EffectiveTokenLimit(token_size_threshold) == (token_size_threshold * 3) \div 4

\* the loop over effectively_summarized_articles: `concatenated` is
\* len(concatenated_summaries), `fixed` is previous_digests_size +
\* base_prompt_overhead; new_size / TOKEN_TO_CHAR_RATIO > limit breaks the
\* loop, otherwise "\n\n" (when something was added before) and the
\* article summary are added
RECURSIVE BudgetLoop(_, _, _, _, _)
BudgetLoop(articles, concatenated, included, limit, fixed) ==
    IF articles = <<>>
    THEN [concatenated |-> concatenated, included |-> included, skipped |-> 0]
    ELSE LET art == Head(articles)
             new_size == concatenated + ArticleSummaryLength(art) + fixed
         IN IF new_size > limit * TOKEN_TO_CHAR_RATIO
            THEN [concatenated |-> concatenated, included |-> included,
                  skipped |-> Len(articles)]
            ELSE BudgetLoop(Tail(articles),
                            (IF concatenated > 0 THEN concatenated + 2 ELSE concatenated)
                                + ArticleSummaryLength(art),
                            Append(included, art), limit, fixed)

\* what the call for the collection overview does: _summarize_text_content
\* returns the content, "" for a None content, an "[Error: ...]" text when
\* the call raises
FinalOutcomes == {OracleRaisesWith("other"), OracleNone, OracleContent(TextOf("text", 100, 0))}

CollectionResult(summary, articles, concatenated) ==
    [op |-> "summarize", raised |-> FALSE, summary |-> summary, articles |-> articles,
     concatenated |-> concatenated, prompt |-> articles]

\* summarize_articles_collection after the gather of the summarize_text
\* tasks: `articles` are the summarized articles
SummarizeArticlesCollection(articles, token_size_threshold, context, final) ==
    IF articles = <<>>
    THEN CollectionResult("No articles to summarize for this collection.", <<>>, 0)
    ELSE IF EffectivelySummarized(articles) = <<>>
    THEN CollectionResult("No articles with valid summaries.", <<>>, 0)
    ELSE LET loop == BudgetLoop(EffectivelySummarized(articles), 0, <<>>,
                                EffectiveTokenLimit(token_size_threshold),
                                context + COLLECTION_PROMPT_OVERHEAD_CHARS)
         IN IF loop.concatenated = 0
            THEN CollectionResult("No content available for collection summary.",
                                  loop.included, 0)
            ELSE CollectionResult(
                     IF final.raises THEN "[Error: Could not summarize text content"
                     ELSE IF final.none \/ final.content.length = 0
                     THEN "Could not generate collection summary."
                     ELSE "final summary",
                     loop.included, loop.concatenated)

\* the articles main hands over have a text content or PDF bytes
\* (articles_with_content): a text, a PDF of MAX_PDF_BYTES, a larger PDF
\* with and without text
ArticleKinds ==
    {[content |-> TRUE, pdf_bytes |-> 0], [content |-> FALSE, pdf_bytes |-> MAX_PDF_BYTES],
     [content |-> FALSE, pdf_bytes |-> MAX_PDF_BYTES + 1],
     [content |-> TRUE, pdf_bytes |-> MAX_PDF_BYTES + 1]}

InitSummarize ==
    /\ zThreshold \in {400 * k : k \in 1..MaxThreshold}
    /\ zContext \in {0, 100}
    /\ \E n \in 0..MaxSummarized :
         zArt \in {[i \in 1..n |-> ArticleToSummarize(i, kinds[i].content, kinds[i].pdf_bytes)] :
                      kinds \in [1..n -> ArticleKinds]}
    /\ zPc = [i \in 1..Len(zArt) |-> "todo"]
    /\ zSent = [i \in 1..Len(zArt) |-> "none"]
    /\ zOut = [op |-> "none"]
    /\ ParkedHistory
    /\ ParkedFetch
    /\ ParkedMain
    /\ ParkedConfig
    /\ ParkedSelect
    /\ ParkedFilter
    /\ ParkedExtract
    /\ ParkedDigest
    /\ ParkedLaterBut("summarize")

\* one of the tasks [self.summarize_text(article) for article in articles]
\* runs to its end
summarize_text(i) ==
    /\ zOut.op = "none"
    /\ zPc[i] = "todo"
    /\ \E outcome \in SummaryOutcomes :
         LET result == SummarizeText(zArt[i], outcome)
         IN /\ zArt' = [zArt EXCEPT ![i] = result.article]
            /\ zPc' = [zPc EXCEPT ![i] = IF result.raised THEN "raised" ELSE "done"]
            /\ zSent' = [zSent EXCEPT ![i] = result.sent]
    /\ UNCHANGED <<zThreshold, zContext, zOut, earlierVars>>
    /\ UnchangedLaterBut("summarize")

\* the gather has ended; summarize_articles_collection runs to its return,
\* or ends by the exception of a task
summarize_articles_collection ==
    /\ zOut.op = "none"
    /\ \A i \in 1..Len(zArt) : zPc[i] # "todo"
    /\ IF \E i \in 1..Len(zArt) : zPc[i] = "raised"
       THEN zOut' = [op |-> "summarize", raised |-> TRUE, summary |-> "", articles |-> <<>>,
                     concatenated |-> 0, prompt |-> <<>>]
       ELSE \E final \in FinalOutcomes :
                zOut' = SummarizeArticlesCollection(zArt, zThreshold, zContext, final)
    /\ UNCHANGED <<zThreshold, zContext, zArt, zPc, zSent, earlierVars>>
    /\ UnchangedLaterBut("summarize")

NextSummarize ==
    \/ \E i \in 1..Len(zArt) : summarize_text(i)
    \/ summarize_articles_collection

SpecSummarize == InitSummarize /\ [][NextSummarize]_vars

\* `part` is the beginning of `whole`
IsPrefix(part, whole) ==
    /\ Len(part) <= Len(whole)
    /\ \A k \in 1..Len(part) : part[k] = whole[k]

\* the articles of a list whose summary does not open with "[Error:"
RECURSIVE WithoutSentinel(_)
WithoutSentinel(articles) ==
    IF articles = <<>> THEN <<>>
    ELSE IF Head(articles).summary.opening = "[Error:"
         THEN WithoutSentinel(Tail(articles))
         ELSE <<Head(articles)>> \o WithoutSentinel(Tail(articles))

\* C25: summarize_articles_collection ends without an error; the articles of
\* the collection prompt, which are the articles returned, are a prefix, in
\* input order, of the articles whose summary is not the error sentinel; and
\* when something was concatenated, (length of the concatenated summaries +
\* length of the previous-digest context + 500) / 4 is at most 75% of
\* token_size_threshold.
C25_BudgetedPrefix ==
    zOut.op = "summarize" =>
        /\ ~zOut.raised
        /\ zOut.prompt = zOut.articles
        /\ IsPrefix(zOut.articles, WithoutSentinel(zArt))
        /\ zOut.concatenated > 0 =>
               zOut.concatenated + zContext + 500 <= 3 * zThreshold

(***************************************************************************)
(* SpecRetry: _fetch_feed_with_retry as fetch_articles calls it for one    *)
(* feed (rss_fetcher.py).  Times are in milliseconds.                      *)
(***************************************************************************)
DefaultMaxRetries == 3

\* max_retries = feed_config.max_retries or 3
EffectiveMaxRetries(configured) == IF configured = 0 THEN DefaultMaxRetries ELSE configured

RECURSIVE Pow2(_)
Pow2(k) == IF k = 0 THEN 1 ELSE 2 * Pow2(k - 1)

\* what feedparser.parse does in one attempt: it raises, or it answers a
\* feed with a status (0: no status attribute), entries or none, bozo or not
ParseRaises == [raises |-> TRUE, status |-> 0, entries |-> FALSE, bozo |-> FALSE]
ParsedFeed(status, entries, bozo) ==
    [raises |-> FALSE, status |-> status, entries |-> entries, bozo |-> bozo]
ParseAnswers ==
    {ParseRaises} \cup
        {ParsedFeed(s, n, b) : s \in {0, 200, 399, 400, 503}, n \in BOOLEAN, b \in BOOLEAN}

\* the try block raises: by the parse, by status >= 400, or by a bozo feed
\* without entries
AttemptFails(answer) ==
    \/ answer.raises
    \/ answer.status # 0 /\ answer.status >= 400
    \/ ~answer.entries /\ answer.bozo

\* random.uniform(0, 1), in milliseconds
Jitters == {0, 500, 1000}

\* delay = (2 ** attempt) + random.uniform(0, 1)
RetryDelay(attempt, jitter) == Pow2(attempt) * 1000 + jitter

\* a mutant of the except branch: it sleeps after every failed attempt
SleepsAfterEvery(attempt, max_retries) == TRUE

\* if attempt < max_retries - 1: sleep, else return None
SleepsAfter(attempt, max_retries) == attempt < max_retries - 1

AttemptEntry(attempt, answer) ==
    [kind |-> "attempt", attempt |-> attempt, failed |-> AttemptFails(answer),
     answer |-> answer, delay |-> 0]
WaitEntry(attempt, delay) ==
    [kind |-> "wait", attempt |-> attempt, failed |-> TRUE, answer |-> ParseRaises,
     delay |-> delay]

InitRetry ==
    /\ rConfigured \in 0..MaxRetries
    /\ rMaxRetries = EffectiveMaxRetries(rConfigured)
    /\ rAttempt = 0
    /\ rPc = "attempt"
    /\ rLog = <<>>
    /\ rOut = "pending"
    /\ rStats = "none"
    /\ ParkedHistory
    /\ ParkedFetch
    /\ ParkedMain
    /\ ParkedConfig
    /\ ParkedSelect
    /\ ParkedFilter
    /\ ParkedExtract
    /\ ParkedDigest
    /\ ParkedLaterBut("retry")

\* one pass of the loop body up to the sleep: the parse and its checks
Attempt ==
    /\ rPc = "attempt"
    /\ rAttempt < rMaxRetries
    /\ \E answer \in ParseAnswers :
         /\ rLog' = Append(rLog, AttemptEntry(rAttempt, answer))
         /\ IF ~AttemptFails(answer)
            THEN rOut' = "feed" /\ rPc' = "returned"
            ELSE IF SleepsAfter(rAttempt, rMaxRetries)
            THEN rOut' = rOut /\ rPc' = "sleep"
            ELSE rOut' = "None" /\ rPc' = "returned"
    /\ UNCHANGED <<rConfigured, rMaxRetries, rAttempt, rStats, earlierVars>>
    /\ UnchangedLaterBut("retry")

\* time.sleep(delay) and the step of the loop; after the last pass the
\* function falls to its final return None
Sleep ==
    /\ rPc = "sleep"
    /\ \E jitter \in Jitters :
         rLog' = Append(rLog, WaitEntry(rAttempt, RetryDelay(rAttempt, jitter)))
    /\ rAttempt' = rAttempt + 1
    /\ IF rAttempt + 1 < rMaxRetries
       THEN rPc' = "attempt" /\ rOut' = rOut
       ELSE rPc' = "returned" /\ rOut' = "None"
    /\ UNCHANGED <<rConfigured, rMaxRetries, rStats, earlierVars>>
    /\ UnchangedLaterBut("retry")

\* fetch_articles after the call: a None feed is recorded as failed and the
\* loop continues with the next feed; otherwise the entries are processed
FeedReturned ==
    /\ rPc = "returned"
    /\ IF rOut = "None"
       THEN rStats' = "Failed to fetch feed after retries" /\ rPc' = "skipped"
       ELSE rStats' = rStats /\ rPc' = "entries"
    /\ UNCHANGED <<rConfigured, rMaxRetries, rAttempt, rLog, rOut, earlierVars>>
    /\ UnchangedLaterBut("retry")

NextRetry == Attempt \/ Sleep \/ FeedReturned

\* every step ends: the parse under the socket timeout, the sleep after its
\* delay
SpecRetry == InitRetry /\ [][NextRetry]_vars /\ WF_vars(NextRetry)

(***************************************************************************)
(* process_collection and the browser of its ContentExtractor (main.py,    *)
(* content_extractor.py); SpecBrowser                                      *)
(***************************************************************************)
\* Where a return or an exception takes the call. Mutant: the close stands
\* after the body, not in a finally, and an exception passes it by.
LeaveBodyUnprotected(exit) == IF exit = "raised" THEN "done" ELSE "finally"

\* try: ... finally: every return and every exception of the body goes
\* through the finally block
LeaveBody(exit) == "finally"

\* what the steps of the body can do
StepOutcomes == {"ok", "raises"}

InitBrowser ==
    /\ bPc = "load_collection"
    /\ bBatchSize \in 1..MaxBatch
    /\ bNew = 0
    /\ bSelected = 0
    /\ bLeft = 0
    /\ bContent = 0
    /\ bPlaywright = "none"
    /\ bBrowser = "none"
    /\ bCalls = NoCalls
    /\ bExit = "pending"
    /\ ParkedHistory
    /\ ParkedFetch
    /\ ParkedMain
    /\ ParkedConfig
    /\ ParkedSelect
    /\ ParkedFilter
    /\ ParkedExtract
    /\ ParkedDigest
    /\ ParkedLaterBut("browser")

\* a return or an exception inside the try block
Leave(exit) ==
    /\ bExit' = exit
    /\ bPc' = LeaveBody(exit)

\* load_collection and the three constructors, before the try block
load_collection_and_components ==
    /\ bPc = "load_collection"
    /\ \E outcome \in StepOutcomes :
         IF outcome = "raises"
         THEN bPc' = "done" /\ bExit' = "raised before the try"
         ELSE bPc' = "start_browser" /\ bExit' = bExit
    /\ UNCHANGED <<bBatchSize, bNew, bSelected, bLeft, bContent, bPlaywright, bBrowser, bCalls,
                   earlierVars>>
    /\ UnchangedLaterBut("browser")

\* ContentExtractor.start_browser: playwright, then the browser; either
\* can raise
start_browser ==
    /\ bPc = "start_browser"
    /\ \E outcome \in {"ok", "start raises", "launch raises"} :
         IF bBrowser # "none"
         THEN /\ bCalls' = [bCalls EXCEPT !.start_browser = @ + 1]
              /\ bPc' = "fetch_articles"
              /\ UNCHANGED <<bPlaywright, bBrowser, bExit>>
         ELSE IF outcome = "start raises"
         THEN /\ bCalls' = [bCalls EXCEPT !.start_browser = @ + 1]
              /\ Leave("raised")
              /\ UNCHANGED <<bPlaywright, bBrowser>>
         ELSE IF outcome = "launch raises"
         THEN /\ bCalls' = [bCalls EXCEPT !.start_browser = @ + 1]
              /\ bPlaywright' = "started"
              /\ Leave("raised")
              /\ UNCHANGED bBrowser
         ELSE /\ bCalls' = [bCalls EXCEPT !.start_browser = @ + 1, !.launch = @ + 1]
              /\ bPlaywright' = "started"
              /\ bBrowser' = "running"
              /\ bPc' = "fetch_articles"
              /\ UNCHANGED bExit
    /\ UNCHANGED <<bBatchSize, bNew, bSelected, bLeft, bContent, earlierVars>>
    /\ UnchangedLaterBut("browser")

\* 1. rss_fetcher.fetch_articles; no new articles is an early return
fetch_new_articles ==
    /\ bPc = "fetch_articles"
    /\ \E outcome \in StepOutcomes, found \in 0..MaxId :
         IF outcome = "raises" THEN Leave("raised") /\ bNew' = bNew
         ELSE IF found = 0 THEN Leave("No new articles found.") /\ bNew' = bNew
         ELSE bPc' = "select" /\ bNew' = found /\ bExit' = bExit
    /\ UNCHANGED <<bBatchSize, bSelected, bLeft, bContent, bPlaywright, bBrowser, bCalls,
                   earlierVars>>
    /\ UnchangedLaterBut("browser")

\* 2., 3. the digest context and select_articles_for_fetching; nothing
\* selected is an early return
select_articles ==
    /\ bPc = "select"
    /\ \E outcome \in StepOutcomes, selected \in 0..bNew :
         IF outcome = "raises" THEN Leave("raised") /\ UNCHANGED <<bSelected, bLeft>>
         ELSE IF selected = 0
         THEN Leave("No articles selected for fetching.") /\ UNCHANGED <<bSelected, bLeft>>
         ELSE bPc' = "extract" /\ bSelected' = selected /\ bLeft' = selected /\ bExit' = bExit
    /\ UNCHANGED <<bBatchSize, bNew, bContent, bPlaywright, bBrowser, bCalls, earlierVars>>
    /\ UnchangedLaterBut("browser")

\* one pass of the loop over the batches: asyncio.gather of the get_content
\* calls of a batch, which raises what one of them raises
extract_batch ==
    /\ bPc = "extract"
    /\ bLeft > 0
    /\ \E outcome \in StepOutcomes :
         IF outcome = "raises" THEN Leave("raised") /\ bLeft' = bLeft
         ELSE /\ bLeft' = IF bLeft > bBatchSize THEN bLeft - bBatchSize ELSE 0
              /\ UNCHANGED <<bPc, bExit>>
    /\ UNCHANGED <<bBatchSize, bNew, bSelected, bContent, bPlaywright, bBrowser, bCalls,
                   earlierVars>>
    /\ UnchangedLaterBut("browser")

\* after the batches: the articles with content; none is an early return
articles_with_content ==
    /\ bPc = "extract"
    /\ bLeft = 0
    /\ \E with_content \in 0..bSelected :
         /\ bContent' = with_content
         /\ IF with_content > 0 THEN bPc' = "summarize" /\ bExit' = bExit
            ELSE Leave("No articles with extractable content.")
    /\ UNCHANGED <<bBatchSize, bNew, bSelected, bLeft, bPlaywright, bBrowser, bCalls,
                   earlierVars>>
    /\ UnchangedLaterBut("browser")

\* 4. summarize_articles_collection and the normal return
summarize_and_return ==
    /\ bPc = "summarize"
    /\ \E outcome \in StepOutcomes :
         IF outcome = "raises" THEN Leave("raised") ELSE Leave("returned")
    /\ UNCHANGED <<bBatchSize, bNew, bSelected, bLeft, bContent, bPlaywright, bBrowser, bCalls,
                   earlierVars>>
    /\ UnchangedLaterBut("browser")

\* finally: ContentExtractor.close_browser; browser.close() can raise, and
\* then playwright is not stopped and the exception leaves the call
close_browser ==
    /\ bPc = "finally"
    /\ bCalls' = [bCalls EXCEPT !.close_browser = @ + 1]
    /\ \E outcome \in StepOutcomes :
         IF bBrowser # "none" /\ outcome = "raises"
         THEN /\ bExit' = "raised"
              /\ UNCHANGED <<bBrowser, bPlaywright>>
         ELSE /\ bBrowser' = IF bBrowser = "none" THEN "none" ELSE "closed"
              /\ bPlaywright' = IF bPlaywright = "none" THEN "none" ELSE "stopped"
              /\ bExit' = bExit
    /\ bPc' = "done"
    /\ UNCHANGED <<bBatchSize, bNew, bSelected, bLeft, bContent, earlierVars>>
    /\ UnchangedLaterBut("browser")

NextBrowser ==
    \/ load_collection_and_components
    \/ start_browser
    \/ fetch_new_articles
    \/ select_articles
    \/ extract_batch
    \/ articles_with_content
    \/ summarize_and_return
    \/ close_browser

\* every awaited step ends, with its result or an exception
SpecBrowser == InitBrowser /\ [][NextBrowser]_vars /\ WF_vars(NextBrowser)

(***************************************************************************)
(* The Playwright fallback of _get_content_impl (content_extractor.py):    *)
(* the get_content calls of one batch run as tasks of one asyncio.gather   *)
(* and share the extractor; a step of a task runs from one await to the    *)
(* next. SpecPages                                                         *)
(***************************************************************************)
\* self._max_concurrent_pages
max_concurrent_pages == 5

InitPages ==
    /\ \E n \in 1..MaxFallbacks : pPc = [t \in 1..n |-> "check"]
    /\ pActive = 0
    /\ ParkedHistory
    /\ ParkedFetch
    /\ ParkedMain
    /\ ParkedConfig
    /\ ParkedSelect
    /\ ParkedFilter
    /\ ParkedExtract
    /\ ParkedDigest
    /\ ParkedLaterBut("pages")

\* if self._active_pages >= self._max_concurrent_pages: await
\* asyncio.sleep(1.0); otherwise the counter is raised and new_page awaited
limit_check(t) ==
    /\ pPc[t] = "check"
    /\ IF pActive >= max_concurrent_pages
       THEN pPc' = [pPc EXCEPT ![t] = "sleeping"] /\ pActive' = pActive
       ELSE pPc' = [pPc EXCEPT ![t] = "new_page"] /\ pActive' = pActive + 1
    /\ UNCHANGED earlierVars
    /\ UnchangedLaterBut("pages")

\* the sleep is over: the counter is raised without a second look at it
after_sleep(t) ==
    /\ pPc[t] = "sleeping"
    /\ pPc' = [pPc EXCEPT ![t] = "new_page"]
    /\ pActive' = pActive + 1
    /\ UNCHANGED earlierVars
    /\ UnchangedLaterBut("pages")

\* await self.browser.new_page(...): the page, or an exception, after
\* which page is None and the finally block leaves the counter as it is
new_page(t) ==
    /\ pPc[t] = "new_page"
    /\ \E outcome \in {"page", "raises"} :
         pPc' = [pPc EXCEPT ![t] = IF outcome = "page" THEN "page" ELSE "done"]
    /\ UNCHANGED <<pActive, earlierVars>>
    /\ UnchangedLaterBut("pages")

\* goto and content end (with the html, a timeout or an exception) and the
\* finally block closes the page and lowers the counter
close_page(t) ==
    /\ pPc[t] = "page"
    /\ pPc' = [pPc EXCEPT ![t] = "done"]
    /\ pActive' = Max(0, pActive - 1)
    /\ UNCHANGED earlierVars
    /\ UnchangedLaterBut("pages")

\* the 120 s of get_content run out while the task sleeps: it is cancelled
\* before it touched the counter
get_content_timeout(t) ==
    /\ pPc[t] = "sleeping"
    /\ pPc' = [pPc EXCEPT ![t] = "done"]
    /\ UNCHANGED <<pActive, earlierVars>>
    /\ UnchangedLaterBut("pages")

NextPages ==
    \E t \in DOMAIN pPc :
        \/ limit_check(t)
        \/ after_sleep(t)
        \/ new_page(t)
        \/ close_page(t)
        \/ get_content_timeout(t)

SpecPages == InitPages /\ [][NextPages]_vars

(***************************************************************************)
(* _apply_rate_limit (content_extractor.py). The get_content calls of a    *)
(* batch are tasks of one event loop: a call runs without interruption up  *)
(* to its await asyncio.sleep and again from its wake-up. Time is counted  *)
(* in tenths of a second. SpecRate                                         *)
(***************************************************************************)
\* the defaults of min_delay and max_delay, 0.5 s and 2.0 s
min_delay == 5
max_delay == 20

\* random.uniform(min_delay, max_delay), to the resolution of the clock
Delays == {min_delay, 2 * min_delay, max_delay}

RateDomains == {"a.example", "b.example"}

\* the run starts long after the epoch that a missing entry stands for
StartOfRun == max_delay + min_delay

IdleCall(domain) ==
    [domain |-> domain, pc |-> "idle", called |-> 0, last_access |-> 0, delay |-> 0,
     wake |-> 0, start |-> 0]

InitRate ==
    /\ lNow = StartOfRun
    /\ lLast = [d \in RateDomains |-> 0]
    /\ \E n \in 1..MaxRateCalls : lCalls \in [1..n -> {IdleCall(d) : d \in RateDomains}]
    /\ ParkedHistory
    /\ ParkedFetch
    /\ ParkedMain
    /\ ParkedConfig
    /\ ParkedSelect
    /\ ParkedFilter
    /\ ParkedExtract
    /\ ParkedDigest
    /\ ParkedLaterBut("rate")

\* self._domain_last_access.get(domain, 0)
LastAccess(last, domain) == last[domain]

\* _apply_rate_limit up to the sleep, or to its end when it does not sleep
apply_rate_limit(c) ==
    /\ lCalls[c].pc = "idle"
    /\ \E delay \in Delays :
         LET domain == lCalls[c].domain
             last_access == LastAccess(lLast, domain)
             time_since_last == lNow - last_access
             seen == [lCalls[c] EXCEPT !.called = lNow, !.last_access = last_access,
                                       !.delay = delay]
         IN IF time_since_last < delay
            THEN /\ lCalls' = [lCalls EXCEPT ![c] =
                                  [seen EXCEPT !.pc = "sleeping",
                                               !.wake = lNow + (delay - time_since_last)]]
                 /\ lLast' = lLast
            ELSE /\ lCalls' = [lCalls EXCEPT ![c] = [seen EXCEPT !.pc = "fetching",
                                                                  !.start = lNow]]
                 /\ lLast' = [lLast EXCEPT ![domain] = lNow]
    /\ UNCHANGED <<lNow, earlierVars>>
    /\ UnchangedLaterBut("rate")

\* the sleep is over: the last access is set to the time of the wake-up and
\* the fetch starts
after_rate_sleep(c) ==
    /\ lCalls[c].pc = "sleeping"
    /\ lNow >= lCalls[c].wake
    /\ lCalls' = [lCalls EXCEPT ![c] = [@ EXCEPT !.pc = "fetching", !.start = lNow]]
    /\ lLast' = [lLast EXCEPT ![lCalls[c].domain] = lNow]
    /\ UNCHANGED <<lNow, earlierVars>>
    /\ UnchangedLaterBut("rate")

\* time passes
Tick ==
    /\ lNow < StartOfRun + MaxTicks * min_delay
    /\ lNow' = lNow + min_delay
    /\ UNCHANGED <<lLast, lCalls, earlierVars>>
    /\ UnchangedLaterBut("rate")

NextRate ==
    \/ \E c \in DOMAIN lCalls : apply_rate_limit(c) \/ after_rate_sleep(c)
    \/ Tick

SpecRate == InitRate /\ [][NextRate]_vars

(***************************************************************************)
(* Link following in _get_content_impl (content_extractor.py). An href is  *)
(* a number: 0 is the page itself, a negative one is no http link, the     *)
(* positive ones are the pages it can point to. SpecLinks                  *)
(***************************************************************************)
\* soup.find_all("a", href=True, limit=25)
FindAllLimit == 25
\* list(dict.fromkeys(links_to_follow))[:30]
UniqueLinksLimit == 30

ParentId == [parent |-> 1, link |-> 0]

\* a mutant of the id of a linked article: no ordinal in it
LinkedArticleIdUnnumbered(parent, i) == [parent |-> parent.parent, link |-> 1]

\* id=f"{article.id}_link_{i + 1}"
LinkedArticleId(parent, i) == [parent |-> parent.parent, link |-> i + 1]

\* the parent as _get_content_impl holds it when the links are looked at
ParentArticle(follow) ==
    [id |-> ParentId, follow_article_links |-> follow, content |-> "extracted text",
     raw_content |-> "none", content_type |-> "text/plain"]

\* Article(id=..., follow_article_links=False, ...)
LinkedArticle(parent, i) ==
    [id |-> LinkedArticleId(parent.id, i), follow_article_links |-> FALSE, content |-> "",
     raw_content |-> "none", content_type |-> ""]

\* pages: n a-tags that are all different, all the same, in pairs, or
\* mixed with links to the page itself and links that are not http
AnchorShapes == {"distinct", "same", "pairs", "mixed"}
AnchorsOf(n, shape) ==
    [k \in 1..n |->
        CASE shape = "distinct" -> k
          [] shape = "same" -> 1
          [] shape = "pairs" -> (k + 1) \div 2
          [] shape = "mixed" -> IF k % 3 = 0 THEN 0 ELSE IF k % 3 = 1 THEN 0 - 1 ELSE k]

\* not abs_url.startswith("http") or abs_url == base_url: skipped
IsExternal(href) == href > 0

\* re.search(self.settings.link_filter_pattern, abs_url), for no pattern
\* and for a pattern that the even links match
MatchesFilter(pattern, href) == pattern = "none" \/ href % 2 = 0

\* the loop over soup.find_all(...)
RECURSIVE LinksToFollow(_, _)
LinksToFollow(found, pattern) ==
    IF found = <<>> THEN <<>>
    ELSE LET rest == LinksToFollow(Tail(found), pattern)
         IN IF IsExternal(Head(found)) /\ MatchesFilter(pattern, Head(found))
            THEN <<Head(found)>> \o rest
            ELSE rest

\* list(dict.fromkeys(links)): the first occurrence of each, in order
RECURSIVE FromKeys(_)
FromKeys(links) ==
    IF links = <<>> THEN <<>>
    ELSE LET front == FromKeys(SubSeq(links, 1, Len(links) - 1))
             last == links[Len(links)]
         IN IF \E k \in 1..Len(front) : front[k] = last THEN front ELSE Append(front, last)

UniqueLinks(anchors, pattern) ==
    LET found == SubSeq(anchors, 1, Min(Len(anchors), FindAllLimit))
        unique == FromKeys(LinksToFollow(found, pattern))
    IN SubSeq(unique, 1, Min(Len(unique), UniqueLinksLimit))

\* what the fetch of the sub-link of index i gives: no response, a PDF, a
\* page with text, a page trafilatura extracts nothing from
LinkAnswers == {"failed", "pdf", "text", "nothing", "mixed"}
LinkOutcome(answers, i) ==
    IF answers # "mixed" THEN answers
    ELSE CASE i % 4 = 0 -> "text"
           [] i % 4 = 1 -> "failed"
           [] i % 4 = 2 -> "pdf"
           [] i % 4 = 3 -> "nothing"

InitLinks ==
    /\ kFollow \in BOOLEAN
    /\ kAnchors \in {AnchorsOf(n, shape) : n \in 0..MaxAnchors, shape \in AnchorShapes}
    /\ kFilter \in {"none", "even"}
    /\ kAnswers \in LinkAnswers
    /\ kUnique = <<>>
    /\ kI = 0
    /\ kOut = <<>>
    /\ kFetches = 0
    /\ kPc = "page"
    /\ ParkedHistory
    /\ ParkedFetch
    /\ ParkedMain
    /\ ParkedConfig
    /\ ParkedSelect
    /\ ParkedFilter
    /\ ParkedExtract
    /\ ParkedDigest
    /\ ParkedLaterBut("links")

\* the main article has its content: without link following it is
\* returned alone, otherwise the links of the page are collected
collect_links ==
    /\ kPc = "page"
    /\ kOut' = <<ParentArticle(kFollow)>>
    /\ IF ~kFollow
       THEN kPc' = "returned" /\ kUnique' = kUnique
       ELSE kPc' = "links" /\ kUnique' = UniqueLinks(kAnchors, kFilter)
    /\ UNCHANGED <<kFollow, kAnchors, kFilter, kAnswers, kI, kFetches, earlierVars>>
    /\ UnchangedLaterBut("links")

\* one pass of the loop over unique_links
follow_link ==
    /\ kPc = "links"
    /\ kI < Len(kUnique)
    /\ kFetches' = kFetches + 1
    /\ kI' = kI + 1
    /\ LET linked == LinkedArticle(kOut[1], kI)
           outcome == LinkOutcome(kAnswers, kI)
       IN kOut' = CASE outcome = "pdf" ->
                         Append(kOut, [linked EXCEPT !.raw_content = "bytes",
                                                     !.content_type = "application/pdf"])
                    [] outcome = "text" ->
                         Append(kOut, [linked EXCEPT !.content = "extracted text",
                                                     !.content_type = "text/plain"])
                    [] OTHER -> kOut
    /\ UNCHANGED <<kFollow, kAnchors, kFilter, kAnswers, kUnique, kPc, earlierVars>>
    /\ UnchangedLaterBut("links")

\* return all_articles
return_all_articles ==
    /\ kPc = "links"
    /\ kI = Len(kUnique)
    /\ kPc' = "returned"
    /\ UNCHANGED <<kFollow, kAnchors, kFilter, kAnswers, kUnique, kI, kOut, kFetches,
                   earlierVars>>
    /\ UnchangedLaterBut("links")

\* the 120 s of get_content run out at an await of the loop: [article]
links_timeout ==
    /\ kPc = "links"
    /\ kI < Len(kUnique)
    /\ kPc' = "timed out"
    /\ kOut' = <<kOut[1]>>
    /\ UNCHANGED <<kFollow, kAnchors, kFilter, kAnswers, kUnique, kI, kFetches, earlierVars>>
    /\ UnchangedLaterBut("links")

NextLinks == collect_links \/ follow_link \/ return_all_articles \/ links_timeout

SpecLinks == InitLinks /\ [][NextLinks]_vars

(***************************************************************************)
(* The published date of an entry in fetch_articles (rss_fetcher.py).      *)
(* SpecDate                                                                *)
(***************************************************************************)
\* entry.published_parsed: missing, a time tuple datetime() takes, or one it
\* rejects with ValueError
AbsentField == [kind |-> "absent"]
ParsedTuples ==
    {AbsentField, [kind |-> "invalid"]} \cup {[kind |-> "valid", wall |-> w] : w \in 0..MaxHour}

\* entry.published: missing, a string parsedate_to_datetime rejects, or one
\* it parses, to a naive or to an aware datetime
PublishedStrings ==
    {AbsentField, [kind |-> "unparseable"]} \cup
        {[kind |-> "parses", datetime |-> d] : d \in Datetimes}

UsesNow(now) == [source |-> "now", date |-> Datetime(now, Utc)]

\* the date of the published string, a naive one read as UTC
FromPublishedString(published, now) ==
    IF published.kind = "absent" THEN UsesNow(now)
    ELSE IF published.kind = "unparseable" THEN UsesNow(now)
    ELSE [source |-> "published",
          date |-> IF published.datetime.tzinfo = NoTzinfo
                   THEN ReplaceTzinfo(published.datetime, Utc)
                   ELSE published.datetime]

\* the if / try / except cascade that sets published_date
ResolvePublishedDate(published_parsed, published, now) ==
    IF published_parsed.kind # "absent"
    THEN IF published_parsed.kind = "valid"
         THEN [source |-> "published_parsed", date |-> Datetime(published_parsed.wall, Utc)]
         ELSE FromPublishedString(published, now)
    ELSE UsesNow(now)

InitDate ==
    /\ ePublishedParsed \in ParsedTuples
    /\ ePublished \in PublishedStrings
    /\ eNow = MaxHour
    /\ eOut = [op |-> "none"]
    /\ ParkedHistory
    /\ ParkedFetch
    /\ ParkedMain
    /\ ParkedConfig
    /\ ParkedSelect
    /\ ParkedFilter
    /\ ParkedExtract
    /\ ParkedDigest
    /\ ParkedLaterBut("date")

resolve_published_date ==
    /\ eOut.op = "none"
    /\ LET resolved == ResolvePublishedDate(ePublishedParsed, ePublished, eNow)
       IN eOut' = [op |-> "resolved", source |-> resolved.source, date |-> resolved.date]
    /\ UNCHANGED <<ePublishedParsed, ePublished, eNow, earlierVars>>
    /\ UnchangedLaterBut("date")

SpecDate == InitDate /\ [][resolve_published_date]_vars

(***************************************************************************)
(* SpecLastDigest: consecutive runs of main over one collection whose      *)
(* max_age is "last-digest", while the feed gains entries and time passes  *)
(***************************************************************************)
MaxMinutes == 4
MaxDigestRuns == 3

NotEntered == 0 - 1

InitLastDigest ==
    /\ gNow = 0
    /\ gFeed = <<>>
    /\ gEntered = [i \in Ids |-> NotEntered]
    /\ gHistFile = MissingFile
    /\ gDigestFile = NoDigestFile
    /\ gPc = "idle"
    /\ gRun = 0
    /\ gOut = <<>>
    /\ gToday = 0
    /\ ParkedHistory
    /\ ParkedFetch
    /\ ParkedMain
    /\ ParkedConfig
    /\ ParkedSelect
    /\ ParkedFilter
    /\ ParkedExtract
    /\ ParkedDigest
    /\ ParkedLaterBut("lastdigest")

\* time passes, also while a run of main is between its steps
Minute ==
    /\ gNow < MaxMinutes
    /\ gNow' = gNow + 1
    /\ UNCHANGED <<gFeed, gEntered, gHistFile, gDigestFile, gPc, gRun, gOut, gToday, earlierVars>>
    /\ UnchangedLaterBut("lastdigest")

\* the publisher adds an entry to the feed, dated with the current time or
\* carrying no published_parsed
Publish ==
    /\ \E id \in Ids, dated \in BOOLEAN :
         /\ gEntered[id] = NotEntered
         /\ gFeed' = <<EntryOf(id, IF dated THEN TimeOf(gNow) ELSE NoTime)>> \o gFeed
         /\ gEntered' = [gEntered EXCEPT ![id] = gRun]
    /\ UNCHANGED <<gNow, gHistFile, gDigestFile, gPc, gRun, gOut, gToday, earlierVars>>
    /\ UnchangedLaterBut("lastdigest")

\* process_collection: fetch_articles(max_age = "last-digest") on the feed
fetch_with_last_digest ==
    /\ gPc = "idle"
    /\ gRun < MaxDigestRuns
    /\ gRun' = gRun + 1
    /\ gOut' = FetchArticles(gHistFile, gDigestFile, LastDigest, gNow,
                             <<FeedOf(gFeed, 0)>>).articles
    /\ gPc' = "fetched"
    /\ UNCHANGED <<gNow, gFeed, gEntered, gHistFile, gDigestFile, gToday, earlierVars>>
    /\ UnchangedLaterBut("lastdigest")

\* main, step 4: today = datetime.now(timezone.utc), after every collection
\* has been processed
take_today ==
    /\ gPc = "fetched"
    /\ gToday' = gNow
    /\ gPc' = "stamped"
    /\ UNCHANGED <<gNow, gFeed, gEntered, gHistFile, gDigestFile, gRun, gOut, earlierVars>>
    /\ UnchangedLaterBut("lastdigest")

\* main, step 7: the articles that were selected and summarized are saved
\* and save_digest_time(collection_name, today) follows, when there are any
commit_with_today ==
    /\ gPc = "stamped"
    /\ \E keep \in SUBSET SeqIds(gOut) :
         LET summarized == SelectSeq(gOut, LAMBDA a : a.id \in keep)
         IN IF summarized # <<>>
            THEN /\ gHistFile' = SaveSelectedArticlesToHistory(gHistFile, summarized).file
                 /\ gDigestFile' = DigestFileOf(gToday)
            ELSE UNCHANGED <<gHistFile, gDigestFile>>
    /\ gPc' = "idle"
    /\ UNCHANGED <<gNow, gFeed, gEntered, gRun, gOut, gToday, earlierVars>>
    /\ UnchangedLaterBut("lastdigest")

NextLastDigest ==
    \/ Minute
    \/ Publish
    \/ fetch_with_last_digest
    \/ take_today
    \/ commit_with_today

SpecLastDigest == InitLastDigest /\ [][NextLastDigest]_vars

(***************************************************************************)
(* Claims on max_age = "last-digest" (SpecLastDigest)                      *)
(***************************************************************************)
\* the entries that entered the feed after the previous run fetched it and
\* before this run did
EnteredSincePreviousFetch ==
    {id \in Ids : gRun >= 2 /\ gEntered[id] = gRun - 1}

EntryWithLink(id) == gFeed[CHOOSE k \in 1..Len(gFeed) : gFeed[k].link = id]

\* C37: with max_age = "last-digest" no article is lost between two
\* consecutive runs: every entry that entered the feed after the previous
\* run fetched it is among the articles fetch_articles returns in this run.
C37_NoArticleLostBetweenDigests ==
    gPc = "fetched" => EnteredSincePreviousFetch \subseteq SeqIds(gOut)

\* the entries that are lost are those dated before the timestamp the
\* previous run saved
C37_LostOnlyBehindTimestamp ==
    gPc = "fetched" =>
        \A id \in EnteredSincePreviousFetch \ SeqIds(gOut) :
            /\ EntryWithLink(id).published_parsed.has
            /\ GetLastDigestTime(gDigestFile).has
            /\ EntryWithLink(id).published_parsed.t < GetLastDigestTime(gDigestFile).t

(***************************************************************************)
(* Claims on the order of the fetched articles (SpecFetch)                 *)
(***************************************************************************)
\* `part` can be had from `whole` by leaving elements out
RECURSIVE IsSubsequence(_, _)
IsSubsequence(part, whole) ==
    IF part = <<>> THEN TRUE
    ELSE IF whole = <<>> THEN FALSE
    ELSE IF Head(part) = Head(whole) THEN IsSubsequence(Tail(part), Tail(whole))
    ELSE IsSubsequence(part, Tail(whole))

\* the ids of the articles of feed k, in the order returned
RECURSIVE IdsOfFeed(_, _)
IdsOfFeed(articles, k) ==
    IF articles = <<>> THEN <<>>
    ELSE IF Head(articles).feed = k
         THEN <<Head(articles).id>> \o IdsOfFeed(Tail(articles), k)
         ELSE IdsOfFeed(Tail(articles), k)

EntryLinks(entries) == [k \in 1..Len(entries) |-> entries[k].link]

\* C21: the articles that fetch_articles returns for one feed have the links
\* of entries of that feed as ids and come in the order of these entries,
\* and the articles of an earlier configured feed come before those of a
\* later one.
C21_FeedOrderKept ==
    (fOut.op = "fetch" /\ ~fOut.raised) =>
        /\ \A k \in 1..Len(fFeeds) :
               IsSubsequence(IdsOfFeed(fOut.articles, k), EntryLinks(fFeeds[k].entries))
        /\ \A a, b \in 1..Len(fOut.articles) :
               a < b => fOut.articles[a].feed <= fOut.articles[b].feed

\* C21 witness: one feed answered the entries 2, 1 and both were returned,
\* in this order
C21_Witness ==
    /\ fOut.op = "fetch" /\ ~fOut.raised
    /\ Len(fOut.articles) = 2
    /\ fOut.articles[1].id = 2 /\ fOut.articles[2].id = 1
    /\ fOut.articles[1].feed = fOut.articles[2].feed

(***************************************************************************)
(* Claims on summarize_text and the error sentinel (SpecSummarize)         *)
(***************************************************************************)
\* C26: no summarize_text task ends by an exception, whatever the oracle
\* does; an article whose summary opens with "[Error:" is neither in the
\* collection prompt nor in the returned list; and the summary that
\* summarize_text has set ends with the link of its article.
C26_ErrorSentinelFiltered ==
    /\ \A i \in 1..Len(zArt) :
         /\ zPc[i] # "raised"
         /\ zPc[i] = "done" => zArt[i].summary.link = zArt[i].id
    /\ zOut.op = "summarize" =>
         /\ ~zOut.raised
         /\ \A k \in 1..Len(zOut.articles) : ~StartsWithError(zOut.articles[k].summary)
         /\ \A k \in 1..Len(zOut.prompt) : ~StartsWithError(zOut.prompt[k].summary)
         /\ \A i \in 1..Len(zArt) :
              StartsWithError(zArt[i].summary) =>
                  /\ \A k \in 1..Len(zOut.articles) : zOut.articles[k].id # i
                  /\ \A k \in 1..Len(zOut.prompt) : zOut.prompt[k].id # i

\* C26 witness: the oracle failed for the first of two articles, which got
\* the error summary, and only the second one was returned
C26_Witness ==
    /\ zOut.op = "summarize"
    /\ Len(zArt) = 2
    /\ zArt[1].content /\ zArt[1].raw_content = 0
    /\ StartsWithError(zArt[1].summary)
    /\ Len(zOut.articles) = 1
    /\ zOut.articles[1].id = 2

(***************************************************************************)
(* Claims on the feed fetch with retries (SpecRetry)                       *)
(***************************************************************************)
RetryLogWellFormed ==
    /\ \A n \in 1..Len(rLog) :
         /\ rLog[n].attempt < rMaxRetries
         /\ rLog[n].kind = "attempt" =>
              /\ rLog[n].attempt = Cardinality({m \in 1..(n - 1) : rLog[m].kind = "attempt"})
              /\ ~rLog[n].failed => n = Len(rLog)
              /\ (rLog[n].failed /\ n < Len(rLog)) => rLog[n + 1].kind = "wait"
         /\ rLog[n].kind = "wait" =>
              /\ n > 1
              /\ rLog[n - 1].kind = "attempt" /\ rLog[n - 1].failed
              /\ rLog[n - 1].attempt = rLog[n].attempt
              /\ rLog[n].attempt < rMaxRetries - 1
              /\ rLog[n].delay >= Pow2(rLog[n].attempt) * 1000
              /\ rLog[n].delay <= Pow2(rLog[n].attempt) * 1000 + 1000
    /\ Cardinality({n \in 1..Len(rLog) : rLog[n].kind = "attempt"}) <= rMaxRetries

RetryOutcomeRight ==
    /\ rOut = "feed" => rLog # <<>> /\ ~rLog[Len(rLog)].failed
    /\ rOut = "None" =>
         /\ rLog # <<>> /\ rLog[Len(rLog)].kind = "attempt" /\ rLog[Len(rLog)].failed
         /\ Cardinality({n \in 1..Len(rLog) : rLog[n].kind = "attempt"}) = rMaxRetries
    /\ rPc = "skipped" <=> (rOut = "None" /\ rStats = "Failed to fetch feed after retries")
    /\ rPc = "entries" => rOut = "feed"

\* C27: _fetch_feed_with_retry makes at most max_retries attempts, numbered
\* from 0; it returns the feed at the first attempt that does not fail;
\* after failed attempt k it waits between 2^k and 2^k + 1 seconds, except
\* after the last attempt; it returns None after max_retries failed
\* attempts, and the feed is then recorded as failed and skipped; and every
\* call ends, the caller going on with the entries or with the next feed.
C27_BoundedRetries ==
    /\ [](rPc # "parked" => RetryLogWellFormed /\ RetryOutcomeRight)
    /\ <>(rPc \in {"parked", "skipped", "entries"})

\* C27 witness: every attempt of a feed with the default max_retries failed,
\* with the waits of 2^0 and 2^1 seconds between them, and the feed was
\* skipped
C27_Witness ==
    /\ rPc = "skipped"
    /\ rConfigured = 0
    /\ Len(rLog) = 5
    /\ rLog[2].kind = "wait" /\ rLog[2].delay \in 1000..2000
    /\ rLog[4].kind = "wait" /\ rLog[4].delay \in 2000..3000
    /\ rLog[5].kind = "attempt" /\ rLog[5].failed
(***************************************************************************)
(* Claims on the cap of a feed (SpecCap)                                   *)
(***************************************************************************)
\* positions of the feed's entries that are not in the history
NewPositions(entries, known) == {p \in 1..Len(entries) : entries[p].link \notin known}

\* the first cap of them
ConsideredPositions(entries, known, cap) ==
    {p \in NewPositions(entries, known) :
        Cardinality({q \in NewPositions(entries, known) : q < p}) < cap}

\* the considered entries that the age cutoff lets through
FreshConsidered(entries, known, cap, cutoff) ==
    {p \in ConsideredPositions(entries, known, cap) :
        ~(cutoff.has /\ entries[p].published_parsed.t < cutoff.t)}

KnownIds == SeqIds(LoadHistoricalArticles(fHistFile).articles)

\* C28: with max_articles > 0 the articles returned for a feed are, in feed
\* order, those of the first max_articles entries not in the history that
\* the age cutoff lets through: never more than max_articles, and an entry
\* of the history takes no slot of the cap.
C28_CapAfterHistoryBeforeAge ==
    (FetchReturned /\ Len(fFeeds) = 1 /\ fFeeds[1].max_articles > 0) =>
        LET entries == fFeeds[1].entries
            cap == fFeeds[1].max_articles
            kept == AscendingSeq(FreshConsidered(entries, KnownIds, cap, fOut.cutoff_date))
        IN /\ Len(fOut.articles) <= cap
           /\ Len(fOut.articles) = Len(kept)
           /\ \A k \in 1..Len(kept) : fOut.articles[k].id = entries[kept[k]].link
           /\ fOut.results[1].articles_fetched =
                  Cardinality(ConsideredPositions(entries, KnownIds, cap))

\* a known entry stands first, the one considered entry is too old, and a
\* fresh one behind it is cut by the cap: nothing is returned
C28_Witness ==
    /\ FetchReturned
    /\ Len(fFeeds) = 1
    /\ fFeeds[1].max_articles = 1
    /\ Len(fFeeds[1].entries) = 3
    /\ fFeeds[1].entries[1].link \in KnownIds
    /\ 2 \in ConsideredPositions(fFeeds[1].entries, KnownIds, 1)
    /\ 3 \in NewPositions(fFeeds[1].entries, KnownIds)
    /\ fOut.cutoff_date.has
    /\ fFeeds[1].entries[2].published_parsed.t < fOut.cutoff_date.t
    /\ fFeeds[1].entries[3].published_parsed.t >= fOut.cutoff_date.t
    /\ fOut.articles = <<>>
(***************************************************************************)
(* Claims on the browser of a collection's run (SpecBrowser)               *)
(***************************************************************************)
BrowserCallsRight ==
    /\ bCalls.start_browser <= 1
    /\ bCalls.launch <= bCalls.start_browser
    /\ bCalls.close_browser <= bCalls.start_browser
    /\ (bPc = "done" /\ bCalls.start_browser = 1) => bCalls.close_browser = 1
    /\ (bPc \notin {"done", "parked"} /\ bCalls.start_browser = 1 /\ bPc # "finally")
           => bCalls.close_browser = 0

\* C29: in process_collection start_browser is called at most once and
\* launches at most one browser, and once it was called every way out of
\* the call (the normal return, the three early returns, an exception)
\* runs close_browser exactly once: never before the way out, and always
\* by the time the call has ended, which it does.
C29_BrowserClosedOnce ==
    /\ [](bPc # "parked" => BrowserCallsRight)
    /\ (bCalls.start_browser = 1) ~> (bPc = "done" /\ bCalls.close_browser = 1)

\* C29 witness: the browser was launched, the batches were extracted, no
\* article had content, and the early return closed the browser
C29_Witness ==
    /\ bPc = "done"
    /\ bExit = "No articles with extractable content."
    /\ bCalls = [start_browser |-> 1, launch |-> 1, close_browser |-> 1]
    /\ bBrowser = "closed"
    /\ bPlaywright = "stopped"
(***************************************************************************)
(* Claims on the browser pages of a batch (SpecPages)                      *)
(***************************************************************************)
\* the calls that hold a page or wait for the one they asked for
OpenPages == {t \in DOMAIN pPc : pPc[t] \in {"new_page", "page"}}

\* C30: while the get_content calls of a batch run, _active_pages and the
\* number of pages open or being opened never exceed
\* _max_concurrent_pages (5).
C30_PagesBounded ==
    /\ pActive <= max_concurrent_pages
    /\ Cardinality(OpenPages) <= max_concurrent_pages
(***************************************************************************)
(* Claims on the rate limit of the extractor (SpecRate)                    *)
(***************************************************************************)
Fetching(domain) == {c \in DOMAIN lCalls : lCalls[c].pc = "fetching" /\ lCalls[c].domain = domain}

\* a call waits only for its own domain, and only its own calls set the
\* last access of a domain
DomainsApart ==
    /\ \A c \in DOMAIN lCalls :
           lCalls[c].pc = "sleeping" =>
               /\ lCalls[c].last_access > 0
               /\ \E o \in DOMAIN lCalls :
                      /\ o # c
                      /\ lCalls[o].domain = lCalls[c].domain
                      /\ lCalls[o].pc = "fetching"
                      /\ lCalls[o].start = lCalls[c].last_access
    /\ \A d \in RateDomains :
           lLast[d] = 0 \/ \E c \in Fetching(d) : lCalls[c].start = lLast[d]

Answered(n) == {i \in 0..(n - 1) : LinkOutcome(kAnswers, i) \in {"pdf", "text"}}

DateAwareAndParsedFirst ==
    eOut.op = "resolved" =>
        /\ eOut.date.tzinfo.aware
        /\ ePublishedParsed.kind = "valid" =>
               eOut.source = "published_parsed" /\ eOut.date.wall = ePublishedParsed.wall

\* C33: the published date is that of published_parsed when it is present
\* and valid; otherwise that of the published string when it is present
\* and parses; otherwise the current time; it is always timezone-aware.
C33_DateResolutionOrder ==
    eOut.op = "resolved" =>
        /\ DateAwareAndParsedFirst
        /\ ePublishedParsed.kind # "valid" =>
               IF ePublished.kind = "parses"
               THEN /\ eOut.source = "published"
                    /\ InstantOf(eOut.date) = InstantOf(ePublished.datetime)
               ELSE eOut.source = "now" /\ eOut.date = Datetime(eNow, Utc)
(***************************************************************************)
(* Claims on PDFs in summarize_text (SpecSummarize)                        *)
(***************************************************************************)
OversizedPdf(article) ==
    article.content_type = "application/pdf" /\ article.raw_content > MAX_PDF_BYTES

\* C34: summarize_text never sends a PDF of more than MAX_PDF_BYTES to the
\* oracle: such an article with a text content is summarized from the
\* text, and one without gets a summary that opens with "[Error:" and no
\* oracle call is made for it.
C34_OversizedPdfNotSent ==
    \A i \in 1..Len(zArt) :
        (zPc[i] = "done" /\ OversizedPdf(zArt[i])) =>
            /\ zSent[i] # "pdf"
            /\ IF zArt[i].content
               THEN zSent[i] = "text"
               ELSE zSent[i] = "none" /\ StartsWithError(zArt[i].summary)

\* C34 witness: of two PDFs over the limit the one with a text was
\* summarized from it and the one without got the error summary
C34_Witness ==
    \E i, j \in 1..Len(zArt) :
        /\ zPc[i] = "done" /\ zPc[j] = "done"
        /\ OversizedPdf(zArt[i]) /\ OversizedPdf(zArt[j])
        /\ zArt[i].content /\ zSent[i] = "text" /\ zArt[i].summary.opening = "text"
        /\ ~zArt[j].content /\ zSent[j] = "none" /\ StartsWithError(zArt[j].summary)

====
